---- MODULE Spec2Model ----
(***************************************************************************)
(* Case / interrogation workflow of the police system, as implemented by   *)
(* the Django REST views in cases/, investigation/ and legal/.             *)
(* Every action is one HTTP request: permission check, object lookup,      *)
(* payload validation, handler body.  The response is recorded in `last`.  *)
(***************************************************************************)
EXTENDS Integers, Sequences, FiniteSets, TLC

\* ------------------------------------------------------------------ bounds
MaxCases == 1
MaxSuspects == 1
MaxInterrogations == 1
MaxDay == 31

\* ------------------------------------------------------- enumerations
PENDING_CADET_REVIEW == "PENDING_CADET_REVIEW"
RETURNED_TO_COMPLAINANT == "RETURNED_TO_COMPLAINANT"
RETURNED_TO_CADET == "RETURNED_TO_CADET"
PENDING_OFFICER_REVIEW == "PENDING_OFFICER_REVIEW"
PENDING_SUPERIOR_APPROVAL == "PENDING_SUPERIOR_APPROVAL"
VOIDED == "VOIDED"
OPEN == "OPEN"
INVESTIGATION == "INVESTIGATION"
WAITING_FOR_SERGEANT == "WAITING_FOR_SERGEANT"
INTERROGATION == "INTERROGATION"
WAITING_FOR_CAPTAIN == "WAITING_FOR_CAPTAIN"
WAITING_FOR_CHIEF == "WAITING_FOR_CHIEF"
IN_COURT == "IN_COURT"
CLOSED_VERDICT == "CLOSED_VERDICT"
CLOSED_REJECTED == "CLOSED_REJECTED"

CaseStatus ==
    { PENDING_CADET_REVIEW, RETURNED_TO_COMPLAINANT, RETURNED_TO_CADET,
      PENDING_OFFICER_REVIEW, PENDING_SUPERIOR_APPROVAL, VOIDED, OPEN,
      INVESTIGATION, WAITING_FOR_SERGEANT, INTERROGATION, WAITING_FOR_CAPTAIN,
      WAITING_FOR_CHIEF, IN_COURT, CLOSED_VERDICT, CLOSED_REJECTED }

TerminalStatuses == { VOIDED, CLOSED_VERDICT, CLOSED_REJECTED }

CrimeLevel == 1..4
CRITICAL == 4

FormationType == { "COMPLAINT", "CRIME_SCENE" }

\* Role codenames seeded by the migration
SeededRoles ==
    { "CITIZEN", "CADET", "OFFICER", "DETECTIVE", "SERGEANT", "CAPTAIN",
      "CHIEF", "JUDGE" }

\* The acting principal of a request, identified by its role codename.
\* PATROL_OFFICER is the extra codename cases.permissions.IsOfficer admits.
Actors == SeededRoles \cup { "PATROL_OFFICER" }

\* HasRole.has_permission for each permission class
IsCadet(actor) == actor \in { "CADET" }
IsOfficer(actor) == actor \in { "OFFICER", "PATROL_OFFICER" }
IsSuperior(actor) == actor \in { "SERGEANT", "CAPTAIN", "CHIEF" }
IsDetective(actor) == actor \in { "DETECTIVE" }
IsSergeant(actor) == actor \in { "SERGEANT" }
IsCaptain(actor) == actor \in { "CAPTAIN" }
IsChief(actor) == actor \in { "CHIEF" }
IsJudge(actor) == actor = "JUDGE"

\* ------------------------------------------------------------- messages
\* A text is a sequence of characters; " " is whitespace.
Chars == { " ", "x" }

\* The message texts a request may carry
Texts == { << >>, << " " >>, << "x" >>, << " ", "x", " " >> }

RECURSIVE LStrip(_)
LStrip(s) == IF s # <<>> /\ Head(s) = " " THEN LStrip(Tail(s)) ELSE s

RECURSIVE RStrip(_)
RStrip(s) ==
    IF s # <<>> /\ s[Len(s)] = " " THEN RStrip(SubSeq(s, 1, Len(s) - 1)) ELSE s

\* serializers.CharField(trim_whitespace=True), the DRF default
Trim(s) == RStrip(LStrip(s))

CadetApprovedMsg == << "Cadet approved. Sent to Officer." >>
OfficerApprovedMsg == << "Officer approved. Case OPEN." >>

\* ---------------------------------------------------------------- state
VARIABLES
    cases,          \* Case table: id -> row
    nextCaseId,     \* next auto-increment primary key of Case
    logs,           \* CaseStatusLog table, in insertion order
    suspects,       \* Suspect table: id -> row
    nextSuspectId,  \* next auto-increment primary key of Suspect
    interrogations, \* Interrogation table: <<case, suspect>> -> row
    verdicts,       \* CourtVerdict table: <<case, suspect>> -> row
    last,           \* the last request and its response
    now,            \* timezone.now(), in whole days
    inflight,       \* the requests being processed step by step
    tips,           \* Reward table: id -> row
    transactions,   \* Transaction table: authority -> row
    releases,       \* ReleaseRequest table: id -> row
    callbacks       \* the payment callbacks being processed step by step

vars ==
    << cases, nextCaseId, logs, suspects, nextSuspectId, interrogations,
       verdicts, last, now, inflight, tips,
       transactions, releases, callbacks >>

Request(op, actor, id, action, extra, msg, result) ==
    [ op |-> op, actor |-> actor, id |-> id, action |-> action,
      extra |-> extra, msg |-> msg, result |-> result ]

NoKey == << 0, 0 >>

\* The server processes that handle requests concurrently
Workers == { "w1", "w2" }

\* A request in a worker: the payload, the Case instance get_object() loaded
\* (case), old_status, and the step the handler has reached.  base is not
\* program state: it records the row and the log the request found.
Worker(pc, actor, c, action, hasMsg, msg, case, old_status, result, base) ==
    [ pc |-> pc, actor |-> actor, id |-> c, action |-> action,
      hasMsg |-> hasMsg, msg |-> msg, case |-> case,
      old_status |-> old_status, result |-> result, base |-> base ]

NoCase ==
    [ status |-> "", complainant_rejection_count |-> 0, crime_level |-> 0,
      formation_type |-> "", created_at |-> 0 ]

NoBase == << NoCase, << >> >>

IdleWorker ==
    Worker("idle", "CITIZEN", 0, "", FALSE, << >>, NoCase, "", "none", NoBase)

\* A payment callback in a worker: the query parameters, the Transaction
\* instance objects.get() loaded (transaction), and the step the handler
\* has reached.
Callback(pc, authority, status_param, transaction, result) ==
    [ pc |-> pc, authority |-> authority, status_param |-> status_param,
      transaction |-> transaction, result |-> result ]

NoTransaction ==
    [ interrogation |-> NoKey, transaction_type |-> "", status |-> "",
      ref_id |-> "" ]

IdleCallback == Callback("idle", 0, "", NoTransaction, "none")

\* The rows of a table whose interrogation survives a deletion
\* (on_delete=CASCADE of the interrogation foreign key)
Cascade(table, gone) ==
    [ i \in { j \in DOMAIN table : table[j].interrogation \notin gone } |->
        table[i] ]

Init ==
    /\ cases = << >>
    /\ nextCaseId = 1
    /\ logs = << >>
    /\ suspects = << >>
    /\ nextSuspectId = 1
    /\ interrogations = [ k \in {} |-> 0 ]
    /\ verdicts = [ k \in {} |-> 0 ]
    /\ last = Request("none", "CITIZEN", NoKey, "", "", << >>, "none")
    /\ now = 0
    /\ inflight = [ w \in Workers |-> IdleWorker ]
    /\ tips = << >>
    /\ transactions = [ a \in {} |-> 0 ]
    /\ releases = [ r \in {} |-> 0 ]
    /\ callbacks = [ w \in Workers |-> IdleCallback ]

\* --------------------------------------------------------- audit log
LogEntry(c, from, to, actor, message) ==
    [ case |-> c, from_status |-> from, to_status |-> to,
      changed_by |-> actor, message |-> message ]

\* CaseViewSet._log_status
LogStatus(c, from, to, actor, message) ==
    Append(logs, LogEntry(c, from, to, actor, message))

IsOfCase(c, e) == e.case = c

\* case.status_logs in Meta.ordering
CaseLog(table, c) == SelectSeq(table, LAMBDA e : IsOfCase(c, e))


\* ------------------------------------------------------ Case operations
\* CaseSerializer.validate: crime-scene cases require time and location
CaseDataValid(formation_type, hasScene) ==
    formation_type = "CRIME_SCENE" => hasScene

\* perform_create without the chief shortcut
InitialStatus_NoChief(formation_type, actor) ==
    IF formation_type = "COMPLAINT"
    THEN PENDING_CADET_REVIEW
    ELSE PENDING_SUPERIOR_APPROVAL

\* CaseViewSet.perform_create: the status the new case is saved with
InitialStatus(formation_type, actor) ==
    IF formation_type = "COMPLAINT"
    THEN PENDING_CADET_REVIEW
    ELSE IF actor = "CHIEF" THEN OPEN ELSE PENDING_SUPERIOR_APPROVAL

\* The row serializer.save() inserts.  status and
\* complainant_rejection_count are read_only_fields of CaseSerializer: the
\* values the request carries (reqStatus, reqCount) are dropped, the count
\* takes the model default.  created_at is auto_now_add.
NewCase(formation_type, actor, crime_level, reqStatus, reqCount) ==
    [ status |-> InitialStatus(formation_type, actor),
      complainant_rejection_count |-> 0,
      crime_level |-> crime_level,
      formation_type |-> formation_type,
      created_at |-> now ]

\* POST /cases/
CreateCase(actor, formation_type, crime_level, hasScene, reqStatus, reqCount) ==
    /\ nextCaseId <= MaxCases
    /\ IF CaseDataValid(formation_type, hasScene)
       THEN /\ cases' = [ c \in DOMAIN cases \cup { nextCaseId } |->
                            IF c = nextCaseId
                            THEN NewCase(formation_type, actor, crime_level,
                                         reqStatus, reqCount)
                            ELSE cases[c] ]
            /\ nextCaseId' = nextCaseId + 1
            /\ last' = Request("create_case", actor, << nextCaseId, 0 >>,
                               formation_type, reqStatus, << >>, "Created")
       ELSE /\ UNCHANGED << cases, nextCaseId >>
            /\ last' = Request("create_case", actor, NoKey, formation_type,
                               reqStatus, << >>, "ValidationError")
    /\ UNCHANGED << logs, suspects, nextSuspectId, interrogations, verdicts,
                    now, inflight, tips,
                    transactions, releases, callbacks >>

\* Case.is_critical
is_critical(case) == case.crime_level = CRITICAL

\* Case.increment_complainant_rejection
increment_complainant_rejection(case) ==
    LET n == case.complainant_rejection_count + 1
    IN  [ case EXCEPT !.complainant_rejection_count = n,
                      !.status = IF n >= 3 THEN VOIDED
                                 ELSE RETURNED_TO_COMPLAINANT ]

\* CaseReviewSerializer without its validate() method
ReviewValid_NoMessageCheck(action, hasMsg, msg) ==
    action \in { "APPROVE", "REJECT" }

\* CaseReviewSerializer: action is a required choice, message is optional
\* and trimmed; validate() demands a message for REJECT.
ReviewValid(action, hasMsg, msg) ==
    /\ action \in { "APPROVE", "REJECT" }
    /\ ~ (action = "REJECT" /\ (~ hasMsg \/ Trim(msg) = << >>))

MsgTag(hasMsg) == IF hasMsg THEN "message" ELSE "no_message"

\* cadet_review without its status check
CadetReviewResponse_NoStatusCheck(actor, c, action, hasMsg, msg) ==
    IF ~ IsCadet(actor) THEN "Forbidden"
    ELSE IF c \notin DOMAIN cases THEN "NotFound"
    ELSE IF ~ ReviewValid(action, hasMsg, msg) THEN "ValidationError"
    ELSE "OK"

\* The response of cadet_review, in the order the request is processed:
\* permission class, get_object, serializer, status check.
CadetReviewResponse(actor, c, action, hasMsg, msg) ==
    IF ~ IsCadet(actor) THEN "Forbidden"
    ELSE IF c \notin DOMAIN cases THEN "NotFound"
    ELSE IF ~ ReviewValid(action, hasMsg, msg) THEN "ValidationError"
    ELSE IF cases[c].status # PENDING_CADET_REVIEW THEN "InvalidTransition"
    ELSE "OK"

\* The case row cadet_review saves
CadetReviewCase(case, action) ==
    IF action = "APPROVE"
    THEN [ case EXCEPT !.status = PENDING_OFFICER_REVIEW ]
    ELSE increment_complainant_rejection(case)

CadetReviewMessage(action, msg) ==
    IF action = "APPROVE" THEN CadetApprovedMsg ELSE Trim(msg)

\* POST /cases/{c}/cadet_review/
CadetReview(actor, c, action, hasMsg, msg) ==
    LET res == CadetReviewResponse(actor, c, action, hasMsg, msg)
    IN  /\ last' = Request("cadet_review", actor, << c, 0 >>, action,
                           MsgTag(hasMsg), msg, res)
        /\ IF res = "OK"
           THEN LET new == CadetReviewCase(cases[c], action)
                IN  /\ cases' = [ cases EXCEPT ![c] = new ]
                    /\ logs' = LogStatus(c, cases[c].status, new.status, actor,
                                         CadetReviewMessage(action, msg))
           ELSE UNCHANGED << cases, logs >>
        /\ UNCHANGED << nextCaseId, suspects, nextSuspectId, interrogations,
                        verdicts,
                        now, inflight, tips,
                        transactions, releases, callbacks >>

\* The response of officer_review
OfficerReviewResponse(actor, c, action, hasMsg, msg) ==
    IF ~ IsOfficer(actor) THEN "Forbidden"
    ELSE IF c \notin DOMAIN cases THEN "NotFound"
    ELSE IF ~ ReviewValid(action, hasMsg, msg) THEN "ValidationError"
    ELSE IF cases[c].status # PENDING_OFFICER_REVIEW THEN "InvalidTransition"
    ELSE "OK"

\* officer_review rejecting the way cadet_review does
OfficerReviewCase_AsCadet(case, action) ==
    IF action = "APPROVE"
    THEN [ case EXCEPT !.status = OPEN ]
    ELSE increment_complainant_rejection(case)

\* The case row officer_review saves
OfficerReviewCase(case, action) ==
    IF action = "APPROVE"
    THEN [ case EXCEPT !.status = OPEN ]
    ELSE [ case EXCEPT !.status = RETURNED_TO_CADET ]

OfficerReviewMessage(action, msg) ==
    IF action = "APPROVE" THEN OfficerApprovedMsg ELSE Trim(msg)

\* POST /cases/{c}/officer_review/
OfficerReview(actor, c, action, hasMsg, msg) ==
    LET res == OfficerReviewResponse(actor, c, action, hasMsg, msg)
    IN  /\ last' = Request("officer_review", actor, << c, 0 >>, action,
                           MsgTag(hasMsg), msg, res)
        /\ IF res = "OK"
           THEN LET new == OfficerReviewCase(cases[c], action)
                IN  /\ cases' = [ cases EXCEPT ![c] = new ]
                    /\ logs' = LogStatus(c, cases[c].status, new.status, actor,
                                         OfficerReviewMessage(action, msg))
           ELSE UNCHANGED << cases, logs >>
        /\ UNCHANGED << nextCaseId, suspects, nextSuspectId, interrogations,
                        verdicts,
                        now, inflight, tips,
                        transactions, releases, callbacks >>

\* PATCH /cases/{c}/ (ModelViewSet.partial_update) with a crime_level, a
\* status and a complainant_rejection_count: CaseViewSet names no permission
\* class for it, crime_level is not among the read_only_fields of
\* CaseSerializer and must be one of the choices.
UpdateCaseResponse(c, crime_level) ==
    IF c \notin DOMAIN cases THEN "NotFound"
    ELSE IF crime_level \notin CrimeLevel THEN "ValidationError"
    ELSE "OK"

\* A serializer that leaves status and complainant_rejection_count writable
UpdatedCase_Writable(case, crime_level, reqStatus, reqCount) ==
    [ case EXCEPT !.crime_level = crime_level,
                  !.status = IF reqStatus = "ABSENT" THEN @ ELSE reqStatus,
                  !.complainant_rejection_count = reqCount ]

\* The row serializer.save() updates: the read_only_fields status and
\* complainant_rejection_count of the request are dropped
UpdatedCase(case, crime_level, reqStatus, reqCount) ==
    [ case EXCEPT !.crime_level = crime_level ]

UpdateCase(actor, c, crime_level, reqStatus, reqCount) ==
    LET res == UpdateCaseResponse(c, crime_level)
    IN  /\ IF res = "OK"
           THEN cases' = [ cases EXCEPT
                             ![c] = UpdatedCase(cases[c], crime_level,
                                                reqStatus, reqCount) ]
           ELSE UNCHANGED cases
        /\ last' = Request("update_case", actor, << c, 0 >>, "", reqStatus,
                           << >>, res)
        /\ UNCHANGED << nextCaseId, logs, suspects, nextSuspectId,
                        interrogations, verdicts, now, inflight, tips,
                        transactions, releases, callbacks >>

\* DELETE /cases/{c}/ (ModelViewSet.destroy).  The foreign keys of
\* CaseStatusLog, Interrogation and CourtVerdict are on_delete=CASCADE, and
\* so are the ReleaseRequest and Transaction rows of the interrogations.
DestroyCase(actor, c) ==
    IF c \in DOMAIN cases
    THEN /\ cases' = [ d \in DOMAIN cases \ { c } |-> cases[d] ]
         /\ transactions' =
                Cascade(transactions,
                        { j \in DOMAIN interrogations : j[1] = c })
         /\ releases' =
                Cascade(releases, { j \in DOMAIN interrogations : j[1] = c })
         /\ logs' = SelectSeq(logs, LAMBDA e : ~ IsOfCase(c, e))
         /\ interrogations' =
                [ k \in { j \in DOMAIN interrogations : j[1] # c } |->
                    interrogations[k] ]
         /\ verdicts' =
                [ k \in { j \in DOMAIN verdicts : j[1] # c } |-> verdicts[k] ]
         /\ last' = Request("destroy_case", actor, << c, 0 >>, "", "", << >>,
                            "Deleted")
         /\ UNCHANGED << nextCaseId, suspects, nextSuspectId,
                         now, inflight, tips, callbacks >>
    ELSE /\ last' = Request("destroy_case", actor, << c, 0 >>, "", "", << >>,
                            "NotFound")
         /\ UNCHANGED << cases, nextCaseId, logs, suspects, nextSuspectId,
                         interrogations, verdicts,
                         now, inflight, tips,
                         transactions, releases, callbacks >>

\* ---------------------------------------------- investigation operations
\* POST /suspects/: status is a read_only_field of SuspectSerializer, the
\* row takes the model default.
CreateSuspect(actor) ==
    /\ nextSuspectId <= MaxSuspects
    /\ suspects' = [ s \in DOMAIN suspects \cup { nextSuspectId } |->
                       IF s = nextSuspectId
                       THEN [ status |-> "UNDER_SURVEILLANCE" ]
                       ELSE suspects[s] ]
    /\ nextSuspectId' = nextSuspectId + 1
    /\ last' = Request("create_suspect", actor, << 0, nextSuspectId >>, "", "",
                       << >>, "Created")
    /\ UNCHANGED << cases, nextCaseId, logs, interrogations, verdicts,
                    now, inflight, tips,
                    transactions, releases, callbacks >>

\* A nullable BooleanField
NullBool == { "NULL", "TRUE", "FALSE" }

\* The guilt scores admitted by MinValueValidator / MaxValueValidator
MinScore == 1
MaxScore == 10

\* A nullable score is the empty tuple (NULL) or the tuple of its value; a
\* score field of a payload likewise (absent or sent).
NoScore == << >>

\* IntegerField(min_value=1, max_value=10)
ScoreInRange(score) ==
    \A i \in 1..Len(score) : score[i] >= MinScore /\ score[i] <= MaxScore

\* The Interrogation row with the model defaults, detective_score and
\* chief_verdict as sent: every field of InterrogationSerializer is writable.
NewInterrogation(score, chief) ==
    [ detective_score |-> score, sergeant_score |-> NoScore,
      sergeant_approval |-> "NULL", sergeant_notes |-> << >>,
      captain_verdict |-> "NULL", chief_verdict |-> chief ]

\* POST /interrogations/ (ModelViewSet.create); (case, suspect) is
\* unique_together, both foreign keys must exist and the serializer applies
\* the validators of the score fields.
CreateInterrogation(actor, c, s, score, chief) ==
    IF c \in DOMAIN cases /\ s \in DOMAIN suspects
       /\ << c, s >> \notin DOMAIN interrogations
       /\ ScoreInRange(score)
    THEN /\ Cardinality(DOMAIN interrogations) < MaxInterrogations
         /\ interrogations' =
                [ k \in DOMAIN interrogations \cup { << c, s >> } |->
                    IF k = << c, s >> THEN NewInterrogation(score, chief)
                    ELSE interrogations[k] ]
         /\ last' = Request("create_interrogation", actor, << c, s >>, chief,
                            "", << >>, "Created")
         /\ UNCHANGED << cases, nextCaseId, logs, suspects, nextSuspectId,
                         verdicts,
                         now, inflight, tips,
                         transactions, releases, callbacks >>
    ELSE /\ last' = Request("create_interrogation", actor, << c, s >>, chief,
                            "", << >>, "ValidationError")
         /\ UNCHANGED << cases, nextCaseId, logs, suspects, nextSuspectId,
                         interrogations, verdicts,
                         now, inflight, tips,
                         transactions, releases, callbacks >>

\* DELETE /interrogations/{k}/ (ModelViewSet.destroy).  The OneToOneField
\* of CourtVerdict and the foreign keys of ReleaseRequest and Transaction
\* are on_delete=CASCADE.
DestroyInterrogation(actor, k) ==
    IF k \in DOMAIN interrogations
    THEN /\ interrogations' =
                [ j \in DOMAIN interrogations \ { k } |-> interrogations[j] ]
         /\ verdicts' = [ j \in DOMAIN verdicts \ { k } |-> verdicts[j] ]
         /\ transactions' = Cascade(transactions, { k })
         /\ releases' = Cascade(releases, { k })
         /\ last' = Request("destroy_interrogation", actor, k, "", "", << >>,
                            "Deleted")
         /\ UNCHANGED << cases, nextCaseId, logs, suspects, nextSuspectId,
                         now, inflight, tips, callbacks >>
    ELSE /\ last' = Request("destroy_interrogation", actor, k, "", "", << >>,
                            "NotFound")
         /\ UNCHANGED << cases, nextCaseId, logs, suspects, nextSuspectId,
                         interrogations, verdicts,
                         now, inflight, tips,
                         transactions, releases, callbacks >>

\* InterrogationScoreSerializer: score is required
ScoreValid(score) == score # NoScore /\ ScoreInRange(score)

\* The response of submit_score: IsDetective | IsSergeant, get_object,
\* serializer.
SubmitScoreResponse(actor, k, score) ==
    IF ~ (IsDetective(actor) \/ IsSergeant(actor)) THEN "Forbidden"
    ELSE IF k \notin DOMAIN interrogations THEN "NotFound"
    ELSE IF ~ ScoreValid(score) THEN "ValidationError"
    ELSE "OK"

\* submit_score with the two score fields exchanged
ScoredInterrogation_Swapped(row, actor, score) ==
    IF actor = "DETECTIVE" THEN [ row EXCEPT !.sergeant_score = score ]
    ELSE IF actor = "SERGEANT" THEN [ row EXCEPT !.detective_score = score ]
    ELSE row

\* The row submit_score saves: the field is chosen by the role codename
ScoredInterrogation(row, actor, score) ==
    IF actor = "DETECTIVE" THEN [ row EXCEPT !.detective_score = score ]
    ELSE IF actor = "SERGEANT" THEN [ row EXCEPT !.sergeant_score = score ]
    ELSE row

\* POST /interrogations/{k}/submit_score/
SubmitScore(actor, k, score) ==
    LET res == SubmitScoreResponse(actor, k, score)
    IN  /\ last' = Request("submit_score", actor, k, "", "", score, res)
        /\ IF res = "OK"
           THEN interrogations' =
                    [ interrogations EXCEPT
                        ![k] = ScoredInterrogation(interrogations[k], actor,
                                                   score) ]
           ELSE UNCHANGED interrogations
        /\ UNCHANGED << cases, nextCaseId, logs, suspects, nextSuspectId,
                        verdicts, now, inflight, tips,
                        transactions, releases, callbacks >>

\* VerdictSerializer: approved is a required boolean
VerdictValid(approved) == approved \in { "TRUE", "FALSE" }

\* The response of sergeant_verdict: permission class, get_object,
\* serializer.  The handler has no status check.
SergeantVerdictResponse(actor, k, approved) ==
    IF ~ IsSergeant(actor) THEN "Forbidden"
    ELSE IF k \notin DOMAIN interrogations THEN "NotFound"
    ELSE IF ~ VerdictValid(approved) THEN "ValidationError"
    ELSE "OK"

\* The status sergeant_verdict saves on the case
SergeantVerdictStatus(approved) ==
    IF approved = "TRUE" THEN INTERROGATION ELSE INVESTIGATION

\* POST /interrogations/{k}/sergeant_verdict/
SergeantVerdict(actor, k, approved, hasNotes, notes) ==
    LET res == SergeantVerdictResponse(actor, k, approved)
    IN  /\ last' = Request("sergeant_verdict", actor, k, approved,
                           MsgTag(hasNotes), notes, res)
        /\ IF res = "OK"
           THEN /\ interrogations' =
                       [ interrogations EXCEPT
                           ![k].sergeant_approval = approved,
                           ![k].sergeant_notes =
                               IF hasNotes THEN Trim(notes) ELSE << >> ]
                /\ cases' = [ cases EXCEPT
                                ![k[1]].status = SergeantVerdictStatus(approved) ]
           ELSE UNCHANGED << cases, interrogations >>
        /\ UNCHANGED << nextCaseId, logs, suspects, nextSuspectId, verdicts,
                        now, inflight, tips,
                        transactions, releases, callbacks >>

\* The response of captain_verdict; no status check either
CaptainVerdictResponse(actor, k, approved) ==
    IF ~ IsCaptain(actor) THEN "Forbidden"
    ELSE IF k \notin DOMAIN interrogations THEN "NotFound"
    ELSE IF ~ VerdictValid(approved) THEN "ValidationError"
    ELSE "OK"

\* The status captain_verdict saves on the case
CaptainVerdictStatus(case, approved) ==
    IF approved # "TRUE" THEN CLOSED_REJECTED
    ELSE IF is_critical(case) THEN WAITING_FOR_CHIEF
    ELSE IN_COURT

\* POST /interrogations/{k}/captain_verdict/
CaptainVerdict(actor, k, approved) ==
    LET res == CaptainVerdictResponse(actor, k, approved)
    IN  /\ last' = Request("captain_verdict", actor, k, approved, "", << >>,
                           res)
        /\ IF res = "OK"
           THEN /\ interrogations' =
                       [ interrogations EXCEPT ![k].captain_verdict = approved ]
                /\ cases' = [ cases EXCEPT
                                ![k[1]].status =
                                    CaptainVerdictStatus(cases[k[1]], approved) ]
           ELSE UNCHANGED << cases, interrogations >>
        /\ UNCHANGED << nextCaseId, logs, suspects, nextSuspectId, verdicts,
                        now, inflight, tips,
                        transactions, releases, callbacks >>

\* chief_verdict without its criticality check
ChiefVerdictResponse_NoCriticalCheck(actor, k, approved) ==
    IF ~ IsChief(actor) THEN "Forbidden"
    ELSE IF k \notin DOMAIN interrogations THEN "NotFound"
    ELSE IF ~ VerdictValid(approved) THEN "ValidationError"
    ELSE "OK"

\* The response of chief_verdict: the criticality check comes before the
\* serializer.
ChiefVerdictResponse(actor, k, approved) ==
    IF ~ IsChief(actor) THEN "Forbidden"
    ELSE IF k \notin DOMAIN interrogations THEN "NotFound"
    ELSE IF ~ is_critical(cases[k[1]]) THEN "PreconditionFailed"
    ELSE IF ~ VerdictValid(approved) THEN "ValidationError"
    ELSE "OK"

\* The status chief_verdict saves on the case
ChiefVerdictStatus(approved) ==
    IF approved = "TRUE" THEN IN_COURT ELSE CLOSED_REJECTED

\* POST /interrogations/{k}/chief_verdict/
ChiefVerdict(actor, k, approved) ==
    LET res == ChiefVerdictResponse(actor, k, approved)
    IN  /\ last' = Request("chief_verdict", actor, k, approved, "", << >>, res)
        /\ IF res = "OK"
           THEN /\ interrogations' =
                       [ interrogations EXCEPT ![k].chief_verdict = approved ]
                /\ cases' = [ cases EXCEPT
                                ![k[1]].status = ChiefVerdictStatus(approved) ]
           ELSE UNCHANGED << cases, interrogations >>
        /\ UNCHANGED << nextCaseId, logs, suspects, nextSuspectId, verdicts,
                        now, inflight, tips,
                        transactions, releases, callbacks >>

\* ---------------------------------------------------- suspect ranking
\* self.interrogations of a suspect
SuspectInterrogations(s) == { k \in DOMAIN interrogations : k[2] = s }

SetMax(S) == CHOOSE x \in S : \A y \in S : y <= x
SetMin(S) == CHOOSE x \in S : \A y \in S : x <= y

\* Suspect.max_crime_level: Max("case__crime_level") or 0
max_crime_level(s) ==
    LET levels == { cases[k[1]].crime_level : k \in SuspectInterrogations(s) }
    IN  IF levels = {} THEN 0 ELSE SetMax(levels)

\* The statuses max_days_in_open_case excludes
InactiveStatuses == { CLOSED_VERDICT, CLOSED_REJECTED, VOIDED }

\* max_days_in_open_case counting the closed cases too
max_days_in_open_case_AllCases(s) ==
    LET active == SuspectInterrogations(s)
    IN  IF active = {} THEN 0
        ELSE now - SetMin({ cases[k[1]].created_at : k \in active })

\* Suspect.max_days_in_open_case: (timezone.now() - oldest created_at of
\* the active cases).days, 0 without an active case
max_days_in_open_case(s) ==
    LET active == { k \in SuspectInterrogations(s) :
                      cases[k[1]].status \notin InactiveStatuses }
    IN  IF active = {} THEN 0
        ELSE now - SetMin({ cases[k[1]].created_at : k \in active })

\* Suspect.ranking_score
ranking_score(s) == max_days_in_open_case(s) * max_crime_level(s)

\* Time passes
Tick(days) ==
    /\ now + days <= MaxDay
    /\ now' = now + days
    /\ last' = Request("tick", "CITIZEN", NoKey, "", "", << >>, "none")
    /\ UNCHANGED << cases, nextCaseId, logs, suspects, nextSuspectId,
                    interrogations, verdicts, inflight, tips,
                    transactions, releases, callbacks >>

\* ------------------------------------------------------ legal operations
\* CourtVerdictSerializer.validate on the attributes the request carries
CourtVerdictValid(verdict, sentence_type) ==
    IF verdict = "INNOCENT" THEN sentence_type = "NONE"
    ELSE IF verdict = "GUILTY" THEN sentence_type # "NONE"
    ELSE TRUE

\* The CourtVerdict row that is inserted: validate() zeroes the punishments
\* of an INNOCENT verdict, absent attributes take the model defaults.
NewCourtVerdict(verdict, sentence_type, prison_months, fine_amount, judge) ==
    [ verdict |-> IF verdict = "ABSENT" THEN "INNOCENT" ELSE verdict,
      sentence_type |-> IF sentence_type = "ABSENT" THEN "NONE"
                        ELSE sentence_type,
      prison_months |-> IF verdict = "INNOCENT" THEN 0 ELSE prison_months,
      fine_amount |-> IF verdict = "INNOCENT" THEN 0 ELSE fine_amount,
      judge |-> judge ]

\* A serializer without the uniqueness validator of the OneToOneField
IssueVerdictResponse_NoUnique(actor, k, verdict, sentence_type) ==
    IF ~ IsJudge(actor) THEN "Forbidden"
    ELSE IF k \notin DOMAIN interrogations THEN "ValidationError"
    ELSE IF ~ CourtVerdictValid(verdict, sentence_type) THEN "ValidationError"
    ELSE "Created"

\* The response of POST /verdicts/: IsJudge, then the serializer (the
\* interrogation must exist and, being a OneToOneField, have no verdict yet).
IssueVerdictResponse(actor, k, verdict, sentence_type) ==
    IF ~ IsJudge(actor) THEN "Forbidden"
    ELSE IF k \notin DOMAIN interrogations THEN "ValidationError"
    ELSE IF k \in DOMAIN verdicts THEN "AlreadyDecided"
    ELSE IF ~ CourtVerdictValid(verdict, sentence_type) THEN "ValidationError"
    ELSE "Created"

\* A save that acquits whatever the verdict is
VerdictSuspectStatus_Acquit(row) == "ACQUITTED"

\* A save that convicts whatever the verdict is
VerdictSuspectStatus_Convict(row) == "CONVICTED"

\* CourtVerdict.save: the suspect's status after the verdict is stored
VerdictSuspectStatus(row) ==
    IF row.verdict = "GUILTY" THEN "CONVICTED" ELSE "ACQUITTED"

\* POST /verdicts/ (CourtVerdictListCreateView.perform_create and
\* CourtVerdict.save); the request record notes the suspect's status before
IssueVerdict(actor, k, verdict, sentence_type, prison_months, fine_amount) ==
    LET res == IssueVerdictResponse(actor, k, verdict, sentence_type)
        row == NewCourtVerdict(verdict, sentence_type, prison_months,
                               fine_amount, actor)
        before == IF k[2] \in DOMAIN suspects
                  THEN << suspects[k[2]].status >> ELSE << >>
    IN  /\ last' = Request("issue_verdict", actor, k, verdict, sentence_type,
                           before, res)
        /\ IF res = "Created"
           THEN /\ verdicts' = [ j \in DOMAIN verdicts \cup { k } |->
                                   IF j = k THEN row ELSE verdicts[j] ]
                /\ suspects' = [ suspects EXCEPT
                                   ![k[2]].status = VerdictSuspectStatus(row) ]
           ELSE UNCHANGED << verdicts, suspects >>
        /\ UNCHANGED << cases, nextCaseId, logs, nextSuspectId,
                        interrogations,
                        now, inflight, tips,
                        transactions, releases, callbacks >>

\* ---------------------------------------------------------- specification
CaseIds == 1..MaxCases
SuspectIds == 1..MaxSuspects
Keys == CaseIds \X SuspectIds

\* Request inputs.  A request that the permission class refuses is
\* enumerated with one payload only: the handler never reads it.  A handler
\* without a permission class never reads the role: its requests are
\* enumerated for one actor.
Client == "DETECTIVE"
NoMsg == << FALSE, << >> >>
MsgInputs == { NoMsg } \cup { << TRUE, t >> : t \in Texts }
OneText == << TRUE, << "x" >> >>
NotesInputs == { NoMsg, OneText }
ReviewInputs(permitted) ==
    IF permitted
    THEN ({ "REJECT" } \X MsgInputs)
         \cup { << "APPROVE", NoMsg >>, << "APPROVE", OneText >>,
                << "ABSENT", NoMsg >> }
    ELSE { << "APPROVE", NoMsg >> }
SergeantInputs(permitted) ==
    IF permitted
    THEN ({ "TRUE", "FALSE" } \X NotesInputs) \cup { << "INVALID", NoMsg >> }
    ELSE { << "TRUE", NoMsg >> }
ApprovedInputs(permitted) ==
    IF permitted THEN { "TRUE", "FALSE", "INVALID" } ELSE { "TRUE" }
CourtInputs(permitted) ==
    IF permitted
    THEN { "GUILTY", "INNOCENT", "ABSENT" } \X { "NONE", "PRISON", "ABSENT" }
    ELSE { << "GUILTY", "PRISON" >> }
LevelInputs == { 3, 4 }
StatusInputs == { "ABSENT", OPEN }
CountInputs == { 0, 3 }
ChiefInputs == { "NULL", "TRUE" }
\* prison_months and fine_amount as sent
PunishmentInputs == { << 12, 5 >> }

\* The actors a request is enumerated for: every actor, or the actors the
\* handler distinguishes (permitted) and one that it refuses.
Callers(permitted, every) ==
    IF every THEN Actors ELSE permitted \cup { "CITIZEN" }

CaseRequests(every) ==
    \/ \E a \in Callers({ "CHIEF" }, every), f \in FormationType,
          l \in LevelInputs, h \in BOOLEAN, rs \in StatusInputs,
          rc \in CountInputs :
            CreateCase(a, f, l, h, rs, rc)
    \/ \E a \in Callers({ r \in Actors : IsCadet(r) }, every),
          c \in CaseIds : \E p \in ReviewInputs(IsCadet(a)) :
            CadetReview(a, c, p[1], p[2][1], p[2][2])
    \/ \E a \in Callers({ r \in Actors : IsOfficer(r) }, every),
          c \in CaseIds : \E p \in ReviewInputs(IsOfficer(a)) :
            OfficerReview(a, c, p[1], p[2][1], p[2][2])
    \/ \E c \in CaseIds : DestroyCase(Client, c)

InvestigationRequests(every) ==
    \/ CreateSuspect(Client)
    \/ \E k \in Keys, ch \in ChiefInputs :
            CreateInterrogation(Client, k[1], k[2], NoScore, ch)
    \/ \E a \in Callers({ r \in Actors : IsSergeant(r) }, every),
          k \in Keys : \E p \in SergeantInputs(IsSergeant(a)) :
            SergeantVerdict(a, k, p[1], p[2][1], p[2][2])
    \/ \E a \in Callers({ r \in Actors : IsCaptain(r) }, every),
          k \in Keys : \E ap \in ApprovedInputs(IsCaptain(a)) :
            CaptainVerdict(a, k, ap)
    \/ \E a \in Callers({ r \in Actors : IsChief(r) }, every),
          k \in Keys : \E ap \in ApprovedInputs(IsChief(a)) :
            ChiefVerdict(a, k, ap)

LegalRequests(every) ==
    \E a \in Callers({ r \in Actors : IsJudge(r) }, every), k \in Keys,
       pu \in PunishmentInputs :
        \E p \in CourtInputs(IsJudge(a)) :
            IssueVerdict(a, k, p[1], p[2], pu[1], pu[2])

\* The status workflow: every request that writes the status of a case or
\* of a suspect
Next ==
    CaseRequests(FALSE) \/ InvestigationRequests(FALSE) \/ LegalRequests(FALSE)

Spec == Init /\ [][Next]_vars

\* The case table alone, for every actor: filing, cadet and officer review,
\* deletion
NextCases == CaseRequests(TRUE)

SpecCases == Init /\ [][NextCases]_vars

\* ------------------------------------------------------------- scores
ScoreInputs(permitted) ==
    IF permitted THEN { NoScore, << 0 >>, << 1 >>, << 10 >>, << 11 >> }
    ELSE { << 10 >> }
CreateScoreInputs == { NoScore, << 10 >>, << 11 >> }

\* A crime scene filed by the chief is OPEN at once
OpenCase(crime_level) ==
    CreateCase("CHIEF", "CRIME_SCENE", crime_level, TRUE, "ABSENT", 0)

\* Interrogations are opened and scored, by every actor
NextScores ==
    \/ OpenCase(CRITICAL)
    \/ CreateSuspect(Client)
    \/ \E k \in Keys, sc \in CreateScoreInputs, ch \in ChiefInputs :
            CreateInterrogation(Client, k[1], k[2], sc, ch)
    \/ \E a \in Actors, k \in Keys :
        \E sc \in ScoreInputs(IsDetective(a) \/ IsSergeant(a)) :
            SubmitScore(a, k, sc)

SpecScores == Init /\ [][NextScores]_vars

\* ------------------------------------------- captain and chief verdicts
\* Open cases of either level, their interrogations, the captain's and the
\* chief's verdicts
NextChief ==
    \/ \E l \in LevelInputs : OpenCase(l)
    \/ CreateSuspect(Client)
    \/ \E k \in Keys, ch \in ChiefInputs :
            CreateInterrogation(Client, k[1], k[2], NoScore, ch)
    \/ \E k \in Keys, ap \in { "TRUE", "FALSE" } :
            CaptainVerdict("CAPTAIN", k, ap)
    \/ \E a \in Callers({ r \in Actors : IsChief(r) }, FALSE),
          k \in Keys : \E ap \in ApprovedInputs(IsChief(a)) :
            ChiefVerdict(a, k, ap)

SpecChief == Init /\ [][NextChief]_vars

\* ------------------------------------------------- ranking over time
DayInputs == { 31 }
RankingCourtInputs == { << "GUILTY", "PRISON" >>, << "INNOCENT", "NONE" >> }

\* Cases age, are closed and reopened by the chief's verdicts, suspects are
\* convicted or acquitted
NextRanking ==
    \/ \E l \in LevelInputs : OpenCase(l)
    \/ CreateSuspect(Client)
    \/ \E k \in Keys : CreateInterrogation(Client, k[1], k[2], NoScore, "NULL")
    \/ \E k \in Keys, ap \in { "TRUE", "FALSE" } : ChiefVerdict("CHIEF", k, ap)
    \/ \E k \in Keys, p \in RankingCourtInputs, pu \in PunishmentInputs :
            IssueVerdict("JUDGE", k, p[1], p[2], pu[1], pu[2])
    \/ \E d \in DayInputs : Tick(d)

SpecRanking == Init /\ [][NextRanking]_vars

\* ------------------------------------------- generic case endpoints
LevelUpdates == { 3, 4, 5 }

\* The update and destroy routes of CaseViewSet, called by every role
GenericRequests ==
    \/ \E a \in Actors, c \in CaseIds, l \in LevelUpdates :
            UpdateCase(a, c, l, "ABSENT", 0)
    \/ \E a \in Actors, c \in CaseIds : DestroyCase(a, c)

\* Case workflow by every role together with the generic endpoints
NextGeneric == CaseRequests(TRUE) \/ GenericRequests

SpecGeneric == Init /\ [][NextGeneric]_vars

\* ------------------------------------------- status and counter frame
FrameReviewInputs == { << "APPROVE", NoMsg >>, << "REJECT", OneText >> }

\* Cases are filed and updated with a status and a count of the client's
\* choosing, reviewed by cadet and officer, and decided by sergeant and
\* captain
NextFrame ==
    \/ \E f \in FormationType, rs \in StatusInputs, rc \in CountInputs :
            CreateCase("CITIZEN", f, CRITICAL, TRUE, rs, rc)
    \/ \E c \in CaseIds, rs \in StatusInputs, rc \in CountInputs :
            UpdateCase(Client, c, CRITICAL, rs, rc)
    \/ \E c \in CaseIds, p \in FrameReviewInputs :
            CadetReview("CADET", c, p[1], p[2][1], p[2][2])
    \/ \E c \in CaseIds, p \in FrameReviewInputs :
            OfficerReview("OFFICER", c, p[1], p[2][1], p[2][2])
    \/ CreateSuspect(Client)
    \/ \E k \in Keys : CreateInterrogation(Client, k[1], k[2], NoScore, "NULL")
    \/ \E k \in Keys : SergeantVerdict("SERGEANT", k, "TRUE", FALSE, << >>)
    \/ \E k \in Keys : CaptainVerdict("CAPTAIN", k, "FALSE")

SpecFrame == Init /\ [][NextFrame]_vars

\* ------------------------------------------------------ court verdicts
\* Interrogations of open cases are opened, brought before the court and
\* deleted
NextCourt ==
    \/ \E l \in LevelInputs : OpenCase(l)
    \/ CreateSuspect(Client)
    \/ \E k \in Keys : CreateInterrogation(Client, k[1], k[2], NoScore, "NULL")
    \/ \E k \in Keys : DestroyInterrogation(Client, k)
    \/ LegalRequests(FALSE)

SpecCourt == Init /\ [][NextCourt]_vars

\* ------------------------------------- one suspect before two courts
\* A suspect under surveillance who is interrogated in two open cases, a
\* serious and a critical one, filed by the chief
InitDocket ==
    /\ now = 0
    /\ cases = << NewCase("CRIME_SCENE", "CHIEF", 3, "ABSENT", 0),
                  NewCase("CRIME_SCENE", "CHIEF", CRITICAL, "ABSENT", 0) >>
    /\ nextCaseId = 3
    /\ logs = << >>
    /\ suspects = << [ status |-> "UNDER_SURVEILLANCE" ] >>
    /\ nextSuspectId = 2
    /\ interrogations = [ k \in { << 1, 1 >>, << 2, 1 >> } |->
                            NewInterrogation(NoScore, "NULL") ]
    /\ verdicts = [ k \in {} |-> 0 ]
    /\ last = Request("none", "CITIZEN", NoKey, "", "", << >>, "none")
    /\ inflight = [ w \in Workers |-> IdleWorker ]
    /\ tips = << >>
    /\ transactions = [ a \in {} |-> 0 ]
    /\ releases = [ r \in {} |-> 0 ]
    /\ callbacks = [ w \in Workers |-> IdleCallback ]

\* Verdicts are issued for the suspect's interrogations, which can be
\* deleted
NextDocket ==
    \/ \E a \in Callers({ r \in Actors : IsJudge(r) }, FALSE),
          k \in DOMAIN interrogations, pu \in PunishmentInputs :
            \E p \in CourtInputs(IsJudge(a)) :
                IssueVerdict(a, k, p[1], p[2], pu[1], pu[2])
    \/ \E k \in DOMAIN interrogations : DestroyInterrogation(Client, k)

SpecDocket == InitDocket /\ [][NextDocket]_vars

\* ---------------------------------------------------- rewards for tips
MaxTips == 1
MaxTrackingIds == 2
RewardMultiplier == 20000000
NoSuspect == 0
NoTrackingId == 0

\* Suspect.reward_amount
reward_amount(s) == ranking_score(s) * RewardMultiplier

\* Reward row as CitizenRewardSubmitSerializer creates it: status and amount
\* are read-only and take the field defaults
NewTip(suspect) ==
    [ suspect |-> suspect, status |-> "PENDING", amount |-> 0,
      unique_tracking_id |-> NoTrackingId ]

\* TipListCreateView: POST /tips/
SubmitTipResponse(suspect) ==
    IF suspect # NoSuspect /\ suspect \notin DOMAIN suspects
    THEN "ValidationError"
    ELSE "Created"

\* The request may carry a status and an amount, which the serializer drops
SubmitTip(actor, suspect, reqStatus, reqAmount) ==
    LET res == SubmitTipResponse(suspect)
    IN  /\ IF res = "Created"
           THEN /\ Len(tips) < MaxTips
                /\ tips' = Append(tips, NewTip(suspect))
           ELSE UNCHANGED tips
        /\ last' = Request("submit_tip", actor, << Len(tips) + 1, 0 >>,
                           reqStatus, "", << reqAmount >>, res)
        /\ UNCHANGED << cases, nextCaseId, logs, suspects, nextSuspectId,
                        interrogations, verdicts, now, inflight,
                        transactions, releases, callbacks >>

\* validate_status of OfficerTipReviewSerializer and of
\* DetectiveTipApprovalSerializer
TipStatusValid(actor, status) ==
    IF actor = "OFFICER" THEN status \in { "FORWARDED", "REJECTED" }
    ELSE status \in { "APPROVED", "REJECTED" }

\* DetectiveTipApprovalSerializer.update: is_newly_approved
is_newly_approved(actor, tip, status) ==
    actor = "DETECTIVE" /\ status = "APPROVED" /\ tip.status # "APPROVED"

\* Reward.calculate_reward_amount reads suspect.cached_ranking_score, an
\* attribute Suspect does not have: with a suspect the read raises
\* AttributeError before amount is assigned, without one amount becomes 0.
calculate_reward_amount(tip) ==
    IF tip.suspect # NoSuspect THEN tip ELSE [ tip EXCEPT !.amount = 0 ]

\* TipDetailView: PATCH /tips/<id>/
ReviewTipResponse(actor, t, status) ==
    IF t \notin DOMAIN tips THEN "NotFound"
    ELSE IF actor \notin { "OFFICER", "DETECTIVE" } THEN "Forbidden"
    ELSE IF ~TipStatusValid(actor, status) THEN "ValidationError"
    ELSE IF is_newly_approved(actor, tips[t], status)
            /\ tips[t].suspect # NoSuspect
         THEN "AttributeError"
    ELSE "OK"

\* uuid.uuid4(): an identifier no tip carries or has carried, the
\* identifiers being numbered in the order they are drawn
TrackingIds == { tips[t].unique_tracking_id : t \in DOMAIN tips }
NewTrackingId == SetMax(TrackingIds \cup { NoTrackingId }) + 1

\* A newly approved tip gets a tracking id, super().update() saves it with
\* the new status, then the tip gets its amount
ReviewedTip(actor, tip, status) ==
    LET saved == [ tip EXCEPT !.status = status ]
    IN  IF is_newly_approved(actor, tip, status)
        THEN calculate_reward_amount(
                 [ saved EXCEPT !.unique_tracking_id = NewTrackingId ])
        ELSE saved

ReviewTip(actor, t, status) ==
    LET res == ReviewTipResponse(actor, t, status)
    IN  /\ IF res \in { "OK", "AttributeError" }
           THEN /\ is_newly_approved(actor, tips[t], status)
                      => NewTrackingId <= MaxTrackingIds
                /\ tips' = [ tips EXCEPT
                               ![t] = ReviewedTip(actor, tips[t], status) ]
           ELSE UNCHANGED tips
        /\ last' = Request("review_tip", actor, << t, 0 >>, status, "", << >>,
                           res)
        /\ UNCHANGED << cases, nextCaseId, logs, suspects, nextSuspectId,
                        interrogations, verdicts, now, inflight,
                        transactions, releases, callbacks >>

TipIds == 1 .. MaxTips
TipSuspectInputs == SuspectIds \cup { NoSuspect }
TipStatusInputs == { "FORWARDED", "APPROVED", "REJECTED" }
\* status and amount as sent: left out, or forged
TipForgeInputs == { << "ABSENT", 0 >>, << "PAID", 999 >> }
TipReviewers == { "OFFICER", "DETECTIVE", "CITIZEN" }

\* Tips about suspects of ageing open cases are submitted and reviewed
NextTips ==
    \/ \E l \in LevelInputs : OpenCase(l)
    \/ CreateSuspect(Client)
    \/ \E k \in Keys : CreateInterrogation(Client, k[1], k[2], NoScore, "NULL")
    \/ \E d \in DayInputs : Tick(d)
    \/ \E s \in TipSuspectInputs, f \in TipForgeInputs :
            SubmitTip("CITIZEN", s, f[1], f[2])
    \/ \E a \in TipReviewers, t \in TipIds, st \in TipStatusInputs :
            ReviewTip(a, t, st)

SpecTips == Init /\ [][NextTips]_vars

\* ------------------------------------------------- failing log writes
\* cadet_review when CaseStatusLog.objects.create raises: case.save() has
\* already committed (no transaction.atomic around the handler), the
\* request ends in a server error.
CadetReviewLogFails(actor, c, action, hasMsg, msg) ==
    /\ CadetReviewResponse(actor, c, action, hasMsg, msg) = "OK"
    /\ cases' = [ cases EXCEPT ![c] = CadetReviewCase(cases[c], action) ]
    /\ last' = Request("cadet_review", actor, << c, 0 >>, action,
                       MsgTag(hasMsg), msg, "ServerError")
    /\ UNCHANGED << nextCaseId, logs, suspects, nextSuspectId, interrogations,
                    verdicts,
                    now, inflight, tips,
                    transactions, releases, callbacks >>

\* officer_review when CaseStatusLog.objects.create raises
OfficerReviewLogFails(actor, c, action, hasMsg, msg) ==
    /\ OfficerReviewResponse(actor, c, action, hasMsg, msg) = "OK"
    /\ cases' = [ cases EXCEPT ![c] = OfficerReviewCase(cases[c], action) ]
    /\ last' = Request("officer_review", actor, << c, 0 >>, action,
                       MsgTag(hasMsg), msg, "ServerError")
    /\ UNCHANGED << nextCaseId, logs, suspects, nextSuspectId, interrogations,
                    verdicts,
                    now, inflight, tips,
                    transactions, releases, callbacks >>

LogFailures ==
    \/ \E a \in Actors, c \in CaseIds : \E p \in ReviewInputs(IsCadet(a)) :
            CadetReviewLogFails(a, c, p[1], p[2][1], p[2][2])
    \/ \E a \in Actors, c \in CaseIds : \E p \in ReviewInputs(IsOfficer(a)) :
            OfficerReviewLogFails(a, c, p[1], p[2][1], p[2][2])

\* The case table with a database that may fail on a log insert
NextFault == CaseRequests(FALSE) \/ LogFailures

SpecFault == Init /\ [][NextFault]_vars

\* ------------------------------------------------------------ admin site
\* CaseAdmin change form: every field but created_at / updated_at is
\* editable, status and complainant_rejection_count included.
AdminChangeCase(c, status, count) ==
    /\ c \in DOMAIN cases
    /\ cases' = [ cases EXCEPT ![c].status = status,
                               ![c].complainant_rejection_count = count ]
    /\ last' = Request("admin_change_case", "STAFF", << c, 0 >>, status, "",
                       << >>, "OK")
    /\ UNCHANGED << nextCaseId, logs, suspects, nextSuspectId, interrogations,
                    verdicts,
                    now, inflight, tips,
                    transactions, releases, callbacks >>

\* A staff user records a case as voided after three rejections.
AdminInputs == { << VOIDED, 3 >> }

AdminRequests ==
    \E c \in CaseIds, p \in AdminInputs : AdminChangeCase(c, p[1], p[2])

\* Case and investigation workflow together with the admin site
NextAdmin ==
    CaseRequests(FALSE) \/ InvestigationRequests(FALSE) \/ AdminRequests

SpecAdmin == Init /\ [][NextAdmin]_vars

\* ------------------------------------------- concurrent cadet reviews
\* cadet_review as the steps a worker takes.  The handler runs in
\* autocommit mode without select_for_update: get_object() loads the row
\* into memory, the checks and the changes work on that instance, case.save()
\* and CaseStatusLog.objects.create() are two statements.

\* get_object(), the serializer and the status check; a request that fails
\* one of them is answered at once.
CadetReviewLoad(w, actor, c, action, hasMsg, msg) ==
    LET res == CadetReviewResponse(actor, c, action, hasMsg, msg)
        base == IF c \in DOMAIN cases THEN << cases[c], CaseLog(logs, c) >>
                ELSE NoBase
    IN  /\ inflight[w].pc = "idle"
        /\ IF res = "OK"
           THEN /\ inflight' =
                       [ inflight EXCEPT
                           ![w] = Worker("loaded", actor, c, action, hasMsg,
                                         msg, cases[c], cases[c].status,
                                         "none", base) ]
                /\ UNCHANGED last
           ELSE /\ inflight' =
                       [ inflight EXCEPT
                           ![w] = Worker("done", actor, c, action, hasMsg, msg,
                                         NoCase, "", res, base) ]
                /\ last' = Request("cadet_review", actor, << c, 0 >>, action,
                                   MsgTag(hasMsg), msg, res)
        /\ UNCHANGED << cases, nextCaseId, logs, suspects, nextSuspectId,
                        interrogations, verdicts, now, tips,
                        transactions, releases, callbacks >>

\* The row an UPDATE of the in-memory instance leaves: case.save() writes
\* every field, increment_complainant_rejection saves with
\* update_fields = complainant_rejection_count, status.
SavedCase(stored, instance, action) ==
    IF action = "APPROVE" THEN instance
    ELSE [ stored EXCEPT
             !.complainant_rejection_count =
                 instance.complainant_rejection_count,
             !.status = instance.status ]

\* case.save() / case.increment_complainant_rejection()
CadetReviewSave(w) ==
    LET r == inflight[w]
        instance == CadetReviewCase(r.case, r.action)
    IN  /\ r.pc = "loaded"
        /\ r.id \in DOMAIN cases
        /\ cases' = [ cases EXCEPT
                        ![r.id] = SavedCase(cases[r.id], instance, r.action) ]
        /\ inflight' = [ inflight EXCEPT ![w].pc = "saved",
                                         ![w].case = instance ]
        /\ UNCHANGED << nextCaseId, logs, suspects, nextSuspectId,
                        interrogations, verdicts, last, now,
                        tips, transactions, releases, callbacks >>

\* self._log_status(case, old_status, case.status, message) and the response
CadetReviewRespond(w) ==
    LET r == inflight[w]
    IN  /\ r.pc = "saved"
        /\ logs' = LogStatus(r.id, r.old_status, r.case.status, r.actor,
                             CadetReviewMessage(r.action, r.msg))
        /\ inflight' = [ inflight EXCEPT ![w].pc = "done",
                                         ![w].result = "OK" ]
        /\ last' = Request("cadet_review", r.actor, << r.id, 0 >>, r.action,
                           MsgTag(r.hasMsg), r.msg, "OK")
        /\ UNCHANGED << cases, nextCaseId, suspects, nextSuspectId,
                        interrogations, verdicts, now, tips,
                        transactions, releases, callbacks >>

\* Complaints are filed, two workers review them concurrently
NextRace ==
    \/ \E l \in LevelInputs :
            CreateCase("CITIZEN", "COMPLAINT", l, FALSE, "ABSENT", 0)
    \/ \E w \in Workers, a \in Callers({ r \in Actors : IsCadet(r) }, FALSE),
          c \in CaseIds : \E p \in ReviewInputs(IsCadet(a)) :
            CadetReviewLoad(w, a, c, p[1], p[2][1], p[2][2])
    \/ \E w \in Workers : CadetReviewSave(w)
    \/ \E w \in Workers : CadetReviewRespond(w)

SpecRace == Init /\ [][NextRace]_vars

\* ---------------------------------------------- bail and fine payments
MaxTransactions == 1
MaxReleases == 1

TransactionTypes == { "BAIL", "FINE" }

\* The codes the gateway answers a payment request and a verification with:
\* 100 is success, 101 is "already verified", any other code is a failure
RequestCodes == { 100, -9 }
VerifyCodes == { 100, 101, -51 }

\* Transaction.status defaults to PENDING, ref_id is empty
NewTransaction(k, transaction_type) ==
    [ interrogation |-> k, transaction_type |-> transaction_type,
      status |-> "PENDING", ref_id |-> "" ]

\* The authority the gateway hands out is new (Transaction.authority is
\* unique)
NewAuthority == SetMax(DOMAIN transactions \cup { 0 }) + 1

\* TransactionSerializer, then the gateway's answer
InitiatePaymentResponse(k, transaction_type, code) ==
    IF k \notin DOMAIN interrogations THEN "ValidationError"
    ELSE IF transaction_type \notin TransactionTypes THEN "ValidationError"
    ELSE IF code # 100 THEN "GatewayError"
    ELSE "Created"

\* POST /payments/initiate/: status, authority and ref_id are read-only
\* for the client
InitiatePayment(actor, k, transaction_type, code) ==
    LET res == InitiatePaymentResponse(k, transaction_type, code)
    IN  /\ res = "Created" => NewAuthority <= MaxTransactions
        /\ last' = Request("initiate_payment", actor, k, transaction_type, "",
                           << code >>, res)
        /\ IF res = "Created"
           THEN transactions' =
                    [ a \in DOMAIN transactions \cup { NewAuthority } |->
                        IF a = NewAuthority
                        THEN NewTransaction(k, transaction_type)
                        ELSE transactions[a] ]
           ELSE UNCHANGED transactions
        /\ UNCHANGED << cases, nextCaseId, logs, suspects, nextSuspectId,
                        interrogations, verdicts, now, inflight, tips,
                        releases, callbacks >>

\* ReleaseRequest.status defaults to PENDING
NewReleaseRequest(k) == [ interrogation |-> k, status |-> "PENDING" ]

NewReleaseId == SetMax(DOMAIN releases \cup { 0 }) + 1

\* POST /release-requests/
CreateReleaseRequest(actor, k) ==
    LET res == IF k \in DOMAIN interrogations THEN "Created"
               ELSE "ValidationError"
    IN  /\ res = "Created" => NewReleaseId <= MaxReleases
        /\ last' = Request("create_release_request", actor, k, "", "", << >>,
                           res)
        /\ IF res = "Created"
           THEN releases' =
                    [ r \in DOMAIN releases \cup { NewReleaseId } |->
                        IF r = NewReleaseId THEN NewReleaseRequest(k)
                        ELSE releases[r] ]
           ELSE UNCHANGED releases
        /\ UNCHANGED << cases, nextCaseId, logs, suspects, nextSuspectId,
                        interrogations, verdicts, now, inflight, tips,
                        transactions, callbacks >>

\* IsSergeant, get_object(), SergeantReleaseReviewSerializer.validate_status
ReviewReleaseResponse(actor, r, status) ==
    IF actor # "SERGEANT" THEN "Forbidden"
    ELSE IF r \notin DOMAIN releases THEN "NotFound"
    ELSE IF status \notin { "APPROVED", "REJECTED" } THEN "ValidationError"
    ELSE "OK"

\* PATCH /release-requests/{r}/
ReviewRelease(actor, r, status) ==
    LET res == ReviewReleaseResponse(actor, r, status)
    IN  /\ last' = Request("review_release", actor, << r, 0 >>, status, "",
                           << >>, res)
        /\ IF res = "OK"
           THEN releases' = [ releases EXCEPT ![r].status = status ]
           ELSE UNCHANGED releases
        /\ UNCHANGED << cases, nextCaseId, logs, suspects, nextSuspectId,
                        interrogations, verdicts, now, inflight, tips,
                        transactions, callbacks >>

\* GET /payments/callback/ as the steps a worker takes.  The handler runs
\* in autocommit mode without select_for_update: objects.get() loads the
\* row into memory, the status check works on that instance,
\* transaction.save() and release_request.save() are two statements.

NoAuthority == 0

\* The query parameters, Transaction.objects.get() and the status check
PaymentCallbackResponse(authority, status_param) ==
    IF authority = NoAuthority \/ status_param = "" THEN "MissingParameters"
    ELSE IF authority \notin DOMAIN transactions THEN "NotFound"
    ELSE IF transactions[authority].status # "PENDING"
         THEN "AlreadyProcessed"
    ELSE "OK"

\* A callback that fails one of the checks is answered at once
PaymentCallbackLoad(w, authority, status_param) ==
    LET res == PaymentCallbackResponse(authority, status_param)
    IN  /\ callbacks[w].pc \in { "idle", "done" }
        /\ callbacks' =
               [ callbacks EXCEPT
                   ![w] = IF res = "OK"
                          THEN Callback("loaded", authority, status_param,
                                        transactions[authority], "none")
                          ELSE Callback("done", authority, status_param,
                                        NoTransaction, res) ]
        /\ UNCHANGED << cases, nextCaseId, logs, suspects, nextSuspectId,
                        interrogations, verdicts, last, now, inflight, tips,
                        transactions, releases >>

\* Status is not OK: transaction.save() writes the instance as FAILED
PaymentCallbackCancel(w) ==
    LET r == callbacks[w]
        instance == [ r.transaction EXCEPT !.status = "FAILED" ]
    IN  /\ r.pc = "loaded"
        /\ r.status_param # "OK"
        /\ r.authority \in DOMAIN transactions
        /\ transactions' = [ transactions EXCEPT ![r.authority] = instance ]
        /\ callbacks' = [ callbacks EXCEPT ![w].pc = "done",
                                          ![w].transaction = instance,
                                          ![w].result = "Cancelled" ]
        /\ UNCHANGED << cases, nextCaseId, logs, suspects, nextSuspectId,
                        interrogations, verdicts, last, now, inflight, tips,
                        releases >>

\* The instance transaction.save() writes after the gateway's verification
VerifiedTransaction(instance, code) ==
    IF code \in { 100, 101 }
    THEN [ instance EXCEPT !.status = "SUCCESS", !.ref_id = "ref" ]
    ELSE [ instance EXCEPT !.status = "FAILED" ]

\* Status is OK: the gateway verifies the payment, transaction.save()
PaymentCallbackVerify(w, code) ==
    LET r == callbacks[w]
        instance == VerifiedTransaction(r.transaction, code)
    IN  /\ r.pc = "loaded"
        /\ r.status_param = "OK"
        /\ r.authority \in DOMAIN transactions
        /\ transactions' = [ transactions EXCEPT ![r.authority] = instance ]
        /\ callbacks' =
               [ callbacks EXCEPT
                   ![w].pc = IF instance.status = "SUCCESS" THEN "verified"
                             ELSE "done",
                   ![w].transaction = instance,
                   ![w].result = IF instance.status = "SUCCESS" THEN "none"
                                 ELSE "VerificationFailed" ]
        /\ UNCHANGED << cases, nextCaseId, logs, suspects, nextSuspectId,
                        interrogations, verdicts, last, now, inflight, tips,
                        releases >>

\* The rows ReleaseRequest.objects.get(interrogation=..., status='APPROVED')
\* matches
ApprovedReleases(k) ==
    { r \in DOMAIN releases :
        releases[r].interrogation = k /\ releases[r].status = "APPROVED" }

\* The approved release request of the interrogation becomes PAID;
\* DoesNotExist is passed over, MultipleObjectsReturned is not caught
PaymentCallbackRelease(w) ==
    LET r == callbacks[w]
        found == ApprovedReleases(r.transaction.interrogation)
    IN  /\ r.pc = "verified"
        /\ IF r.transaction.transaction_type \in TransactionTypes
              /\ Cardinality(found) = 1
           THEN releases' =
                    [ q \in DOMAIN releases |->
                        IF q \in found
                        THEN [ releases[q] EXCEPT !.status = "PAID" ]
                        ELSE releases[q] ]
           ELSE UNCHANGED releases
        /\ callbacks' =
               [ callbacks EXCEPT
                   ![w].pc = "done",
                   ![w].result =
                       IF r.transaction.transaction_type \in TransactionTypes
                          /\ Cardinality(found) > 1
                       THEN "MultipleObjectsReturned"
                       ELSE "OK" ]
        /\ UNCHANGED << cases, nextCaseId, logs, suspects, nextSuspectId,
                        interrogations, verdicts, last, now, inflight, tips,
                        transactions >>

Authorities == 1 .. MaxTransactions
ReleaseIds == 1 .. MaxReleases
AuthorityInputs == Authorities \cup { NoAuthority }
StatusParams == { "OK", "NOK" }
ReleaseStatusInputs == { "APPROVED", "REJECTED", "PAID" }
ReleaseReviewers == { "SERGEANT", "CITIZEN" }

\* Release is requested and reviewed, payments are initiated, two workers
\* serve the gateway's callbacks
NextPayments ==
    \/ OpenCase(CRITICAL)
    \/ CreateSuspect(Client)
    \/ \E k \in Keys : CreateInterrogation(Client, k[1], k[2], NoScore, "NULL")
    \/ \E k \in Keys : CreateReleaseRequest("CITIZEN", k)
    \/ \E a \in ReleaseReviewers, r \in ReleaseIds,
          st \in ReleaseStatusInputs : ReviewRelease(a, r, st)
    \/ \E k \in Keys, t \in TransactionTypes, code \in RequestCodes :
            InitiatePayment("CITIZEN", k, t, code)
    \/ \E w \in Workers, a \in AuthorityInputs, st \in StatusParams :
            PaymentCallbackLoad(w, a, st)
    \/ \E w \in Workers : PaymentCallbackCancel(w)
    \/ \E w \in Workers, code \in VerifyCodes : PaymentCallbackVerify(w, code)
    \/ \E w \in Workers : PaymentCallbackRelease(w)

SpecPayments == Init /\ [][NextPayments]_vars

TypeOK ==
    /\ DOMAIN cases \subseteq CaseIds
    /\ \A c \in DOMAIN cases :
          /\ cases[c].status \in CaseStatus
          /\ cases[c].complainant_rejection_count \in 0..3
          /\ cases[c].crime_level \in CrimeLevel
    /\ DOMAIN interrogations \subseteq Keys
    /\ DOMAIN verdicts \subseteq DOMAIN interrogations
    /\ now \in Nat
    /\ \A w \in Workers :
          inflight[w].pc \in { "idle", "loaded", "saved", "done" }
    /\ Len(tips) <= MaxTips
    /\ DOMAIN transactions \subseteq Authorities
    /\ DOMAIN releases \subseteq ReleaseIds
    /\ \A w \in Workers :
          callbacks[w].pc \in { "idle", "loaded", "verified", "done" }

\* ================================================================ claims
\* The operations that move a case through its workflow
TransitionOps ==
    { "cadet_review", "officer_review", "sergeant_verdict", "captain_verdict",
      "chief_verdict", "issue_verdict" }

\* The request reached the handler body: it was neither refused by the
\* permission class, nor aimed at a missing row, nor malformed.
Processed(req) == req.result \notin { "Forbidden", "NotFound", "ValidationError" }

\* The review payload of a request is well-formed
WellFormedReview(req) ==
    /\ req.action \in { "APPROVE", "REJECT" }
    /\ req.action = "REJECT" => req.extra = "message" /\ Trim(req.msg) # << >>

IsPrefix(s, t) == Len(s) <= Len(t) /\ SubSeq(t, 1, Len(s)) = s

\* C1 (as claimed): a cadet REJECT with a message on a complaint case that is
\* pending cadet review or was returned to the complainant fewer than three
\* times raises complainant_rejection_count by exactly 1 and leaves the
\* status RETURNED_TO_COMPLAINANT after the 1st and 2nd rejection, VOIDED
\* with count 3 after the 3rd.
C1_RejectionCounting ==
    [][ \A c \in DOMAIN cases :
          ( /\ last'.op = "cadet_review"
            /\ last'.actor = "CADET"
            /\ last'.id = << c, 0 >>
            /\ last'.action = "REJECT"
            /\ WellFormedReview(last')
            /\ cases[c].formation_type = "COMPLAINT"
            /\ cases[c].status \in { PENDING_CADET_REVIEW,
                                     RETURNED_TO_COMPLAINANT }
            /\ cases[c].complainant_rejection_count < 3 )
          => /\ c \in DOMAIN cases'
             /\ cases'[c].complainant_rejection_count =
                    cases[c].complainant_rejection_count + 1
             /\ cases'[c].status =
                    IF cases'[c].complainant_rejection_count = 3
                    THEN VOIDED ELSE RETURNED_TO_COMPLAINANT ]_vars

\* C2 (as claimed): once a case has complainant_rejection_count = 3 and is
\* VOIDED, no transition operation (cadet_review, officer_review,
\* sergeant_verdict, captain_verdict, chief_verdict, court verdict) changes
\* its status.
C2_MonotonicVoid ==
    [][ \A c \in DOMAIN cases :
          ( /\ cases[c].complainant_rejection_count = 3
            /\ cases[c].status = VOIDED
            /\ last'.op \in TransitionOps
            /\ last'.id[1] = c )
          => c \in DOMAIN cases' /\ cases'[c].status = VOIDED ]_vars

\* C3 (as claimed): a transition operation that reaches its handler on a
\* case whose status is VOIDED, CLOSED_VERDICT or CLOSED_REJECTED fails with
\* InvalidTransition and leaves cases, interrogations, suspects, verdicts
\* and the audit log unchanged.
C3_TerminalAbsorbing ==
    [][ \A c \in DOMAIN cases :
          ( /\ cases[c].status \in TerminalStatuses
            /\ last'.op \in TransitionOps
            /\ last'.id[1] = c
            /\ Processed(last') )
          => /\ last'.result = "InvalidTransition"
             /\ UNCHANGED << cases, interrogations, suspects, verdicts,
                             logs >> ]_vars

OfficerReviewEffect(c) ==
    /\ c \in DOMAIN cases
    /\ cases[c].status = PENDING_OFFICER_REVIEW
    /\ last'.action = "APPROVE" => cases'[c].status = OPEN
    /\ last'.action = "REJECT" => cases'[c].status = RETURNED_TO_CADET

\* An officer_review request never sets RETURNED_TO_COMPLAINANT and never
\* changes a rejection count
OfficerReviewFrame ==
    \A d \in DOMAIN cases :
        /\ d \in DOMAIN cases'
        /\ cases'[d].complainant_rejection_count =
               cases[d].complainant_rejection_count
        /\ cases'[d].status = RETURNED_TO_COMPLAINANT
               => cases[d].status = RETURNED_TO_COMPLAINANT

IsRejectionEntry(e) ==
    e.to_status \in { RETURNED_TO_COMPLAINANT, VOIDED, RETURNED_TO_CADET }

\* C7: a REJECT in cadet_review or officer_review whose message is missing
\* or empty, once it reaches the serializer, fails with ValidationError
\* whatever the status of the case and changes neither the cases nor the
\* audit log; every log entry written by a rejection has a non-empty
\* message.
C7_RejectNeedsMessage ==
    /\ [][ ( /\ last'.op \in { "cadet_review", "officer_review" }
             /\ last'.action = "REJECT"
             /\ (last'.extra = "no_message" \/ last'.msg = << >>)
             /\ last'.result \notin { "Forbidden", "NotFound" } )
           => /\ last'.result = "ValidationError"
              /\ UNCHANGED << cases, logs >> ]_vars
    /\ [](\A i \in 1..Len(logs) :
              IsRejectionEntry(logs[i]) => logs[i].message # << >>)

\* C7 witness: an officer's REJECT without a message on a case that is not
\* pending officer review failed with ValidationError.
C7_Witness ==
    /\ last.op = "officer_review"
    /\ last.action = "REJECT"
    /\ last.extra = "no_message"
    /\ last.result = "ValidationError"
    /\ last.id[1] \in DOMAIN cases
    /\ cases[last.id[1]].status = RETURNED_TO_COMPLAINANT

\* C8 (as claimed): a transition operation that changes the status of a
\* case appends exactly one log entry for that case, with the old status,
\* the new status and the caller; one that does not change it appends none.
C8_OneLogPerChange ==
    [][ \A c \in DOMAIN cases :
          (last'.op \in TransitionOps /\ c \in DOMAIN cases')
          => IF cases'[c].status # cases[c].status
             THEN /\ Len(CaseLog(logs', c)) = Len(CaseLog(logs, c)) + 1
                  /\ LET e == logs'[Len(logs')]
                     IN  /\ e.case = c
                         /\ e.from_status = cases[c].status
                         /\ e.to_status = cases'[c].status
                         /\ e.changed_by = last'.actor
             ELSE CaseLog(logs', c) = CaseLog(logs, c) ]_vars

\* C9 (as claimed): the log entries of a case at one moment are a prefix of
\* its log entries at any later moment.
C9_AppendOnly ==
    [][ \A c \in CaseIds :
          IsPrefix(CaseLog(logs, c), CaseLog(logs', c)) ]_vars

\* C10 (as claimed): when the log write of a transition fails, the status
\* and complainant_rejection_count of every case are as before the
\* transition.
C10_AtomicWithLog ==
    [][ last'.result = "ServerError" => cases' = cases ]_vars

\* The row and the log of its case that a cadet review leaves when it runs
\* alone on the row and log db
SerialReview(r, db) ==
    IF /\ IsCadet(r.actor)
       /\ ReviewValid(r.action, r.hasMsg, r.msg)
       /\ db[1].status = PENDING_CADET_REVIEW
    THEN LET new == CadetReviewCase(db[1], r.action)
         IN  << new,
                Append(db[2], LogEntry(r.id, db[1].status, new.status, r.actor,
                                       CadetReviewMessage(r.action, r.msg))) >>
    ELSE db

\* C11 (as claimed): once two cadet reviews of the same existing case, handled
\* by two workers at the same time, have both been answered, the case's
\* count, status and audit log are those that one of the two serial orders
\* of the two requests leaves.
C11_Serialized ==
    \A p \in Workers, q \in Workers :
        ( /\ p # q
          /\ inflight[p].pc = "done" /\ inflight[q].pc = "done"
          /\ inflight[p].id = inflight[q].id
          /\ inflight[p].base # NoBase /\ inflight[q].base # NoBase )
        => LET c == inflight[p].id
           IN  << cases[c], CaseLog(logs, c) >>
                 \in { SerialReview(inflight[q],
                                    SerialReview(inflight[p], inflight[p].base)),
                       SerialReview(inflight[p],
                                    SerialReview(inflight[q], inflight[q].base)) }

\* The verdict request on interrogation k that last' records was carried out
Carried(op, k) ==
    last'.op = op /\ last'.id = k /\ last'.result = "OK"

\* The interrogation row carries a status, and it is st
InterrogationStatusIs(row, st) ==
    "status" \in DOMAIN row /\ row.status = st

\* C12 (as claimed): a captain approval sets the status of the interrogation
\* and of the case to WAITING_FOR_CHIEF when the case's crime_level is 4 and
\* to IN_COURT when it is 1, 2 or 3, a captain rejection sets both to
\* CLOSED_REJECTED; afterwards the two statuses are equal.
C12_CaptainBranch ==
    [][ \A k \in DOMAIN interrogations :
          Carried("captain_verdict", k)
          => LET expected ==
                     IF last'.action = "FALSE" THEN CLOSED_REJECTED
                     ELSE IF cases[k[1]].crime_level = CRITICAL
                          THEN WAITING_FOR_CHIEF
                     ELSE IN_COURT
             IN  /\ cases'[k[1]].status = expected
                 /\ InterrogationStatusIs(interrogations'[k], expected) ]_vars

\* The two situations C13 names in which an interrogation is not waiting
\* for the captain
NotWaitingForCaptain(k) ==
    \/ interrogations[k].sergeant_approval # "TRUE"
    \/ cases[k[1]].status = IN_COURT

\* C13 (as claimed): a captain verdict on an interrogation that the sergeant
\* has not approved, or whose case is already IN_COURT, fails and leaves
\* captain_verdict, the interrogation and the case's status unchanged.
C13_CaptainNeedsWaiting ==
    [][ \A k \in DOMAIN interrogations :
          ( /\ last'.op = "captain_verdict"
            /\ last'.id = k
            /\ NotWaitingForCaptain(k) )
          => /\ last'.result # "OK"
             /\ interrogations'[k] = interrogations[k]
             /\ cases'[k[1]].status = cases[k[1]].status ]_vars

\* C14: a chief verdict on an interrogation whose case is not critical fails
\* with PreconditionFailed and changes neither chief_verdict nor the case's
\* status; on a critical case approved = true sets the case's status to
\* IN_COURT and approved = false sets it to CLOSED_REJECTED, and the verdict
\* is stored.
C14_ChiefVerdict ==
    [][ \A k \in DOMAIN interrogations :
          ( /\ last'.op = "chief_verdict"
            /\ last'.actor = "CHIEF"
            /\ last'.id = k )
          => IF cases[k[1]].crime_level # CRITICAL
             THEN /\ last'.result = "PreconditionFailed"
                  /\ interrogations'[k].chief_verdict =
                         interrogations[k].chief_verdict
                  /\ cases'[k[1]].status = cases[k[1]].status
             ELSE /\ last'.action = "TRUE"
                     => /\ last'.result = "OK"
                        /\ cases'[k[1]].status = IN_COURT
                        /\ interrogations'[k].chief_verdict = "TRUE"
                  /\ last'.action = "FALSE"
                     => /\ last'.result = "OK"
                        /\ cases'[k[1]].status = CLOSED_REJECTED
                        /\ interrogations'[k].chief_verdict = "FALSE" ]_vars

\* The chief was refused on a non-critical case that a captain had sent to
\* court
C14_Witness ==
    /\ last.op = "chief_verdict"
    /\ last.actor = "CHIEF"
    /\ last.result = "PreconditionFailed"
    /\ last.id \in DOMAIN interrogations
    /\ cases[last.id[1]].crime_level # CRITICAL
    /\ cases[last.id[1]].status = IN_COURT

\* C15 (as claimed): a sergeant verdict with approved = true sets the case's
\* status to INTERROGATION and the interrogation enters INTERROGATION in the
\* same step, approved = false sets the case's status to INVESTIGATION; the
\* approval flag and the notes are stored, the scores and the captain's and
\* chief's verdicts are unchanged.
C15_SergeantVerdict ==
    [][ \A k \in DOMAIN interrogations :
          Carried("sergeant_verdict", k)
          => /\ interrogations'[k].sergeant_approval = last'.action
             /\ interrogations'[k].sergeant_notes =
                    (IF last'.extra = "message" THEN Trim(last'.msg)
                     ELSE << >>)
             /\ interrogations'[k].detective_score =
                    interrogations[k].detective_score
             /\ interrogations'[k].sergeant_score =
                    interrogations[k].sergeant_score
             /\ interrogations'[k].captain_verdict =
                    interrogations[k].captain_verdict
             /\ interrogations'[k].chief_verdict =
                    interrogations[k].chief_verdict
             /\ IF last'.action = "TRUE"
                THEN /\ cases'[k[1]].status = INTERROGATION
                     /\ InterrogationStatusIs(interrogations'[k], INTERROGATION)
                ELSE cases'[k[1]].status = INVESTIGATION ]_vars

\* The score a request carries is an integer from 1 to 10
GoodScore(score) ==
    Len(score) = 1 /\ score[1] \in MinScore..MaxScore

\* What C16 says of a submission by a detective or a sergeant, and of the
\* fields no submission touches
ScoreEffect(k) ==
    LET old == interrogations[k]
        new == interrogations'[k]
    IN  /\ ( last'.actor = "DETECTIVE" /\ GoodScore(last'.msg) )
           => /\ last'.result = "OK"
              /\ new.detective_score = last'.msg
              /\ new.sergeant_score = old.sergeant_score
        /\ ( last'.actor = "SERGEANT" /\ GoodScore(last'.msg) )
           => /\ last'.result = "OK"
              /\ new.sergeant_score = last'.msg
              /\ new.detective_score = old.detective_score
        /\ ( last'.actor \in { "DETECTIVE", "SERGEANT" }
             /\ ~ GoodScore(last'.msg) )
           => /\ last'.result = "ValidationError"
              /\ new = old
        /\ new.sergeant_approval = old.sergeant_approval
        /\ new.sergeant_notes = old.sergeant_notes
        /\ new.captain_verdict = old.captain_verdict
        /\ new.chief_verdict = old.chief_verdict
        /\ cases'[k[1]].status = cases[k[1]].status

\* Each stored score is unset or in 1..10
ScoresInRange ==
    \A k \in DOMAIN interrogations :
        /\ interrogations[k].detective_score = NoScore
           \/ GoodScore(interrogations[k].detective_score)
        /\ interrogations[k].sergeant_score = NoScore
           \/ GoodScore(interrogations[k].sergeant_score)

\* C16 (as claimed): a detective's submission sets detective_score only, a
\* sergeant's sets sergeant_score only; a score outside 1..10 or an actor
\* with any other role fails with ValidationError and changes nothing; each
\* stored score is unset or in 1..10; a submission never changes the case's
\* status or a verdict field.
C16_Original ==
    /\ [][ \A k \in DOMAIN interrogations :
             ( last'.op = "submit_score" /\ last'.id = k )
             => /\ ScoreEffect(k)
                /\ last'.actor \notin { "DETECTIVE", "SERGEANT" }
                   => /\ last'.result = "ValidationError"
                      /\ interrogations'[k] = interrogations[k] ]_vars
    /\ [] ScoresInRange

\* C16 (amended): as claimed, except that an actor with any other role is
\* refused by the permission class (Forbidden), changing nothing.
C16_SubmitScore ==
    /\ [][ \A k \in DOMAIN interrogations :
             ( last'.op = "submit_score" /\ last'.id = k )
             => /\ ScoreEffect(k)
                /\ last'.actor \notin { "DETECTIVE", "SERGEANT" }
                   => /\ last'.result = "Forbidden"
                      /\ interrogations'[k] = interrogations[k] ]_vars
    /\ [] ScoresInRange

\* A sergeant has scored an interrogation that carries a different detective
\* score
C16_Witness ==
    /\ last.op = "submit_score"
    /\ last.actor = "SERGEANT"
    /\ last.result = "OK"
    /\ last.id \in DOMAIN interrogations
    /\ interrogations[last.id].sergeant_score = << MinScore >>
    /\ interrogations[last.id].detective_score = << MaxScore >>

\* The number of days above which a suspect is most wanted
MostWantedDays == 30

\* maxCrimeLevel of the ranking rule: the greatest crime_level of the cases
\* linked to the suspect, 0 without one
ClaimedMaxCrimeLevel(s) ==
    LET levels == { cases[k[1]].crime_level : k \in SuspectInterrogations(s) }
    IN  IF levels = {} THEN 0 ELSE SetMax(levels)

\* maxDaysOpen of the ranking rule: over the linked cases that are not
\* CLOSED_VERDICT, CLOSED_REJECTED or VOIDED, the greatest max(1, days since
\* the case was created), 0 without one
ClaimedMaxDaysOpen(s) ==
    LET days == { IF now - cases[k[1]].created_at < 1 THEN 1
                  ELSE now - cases[k[1]].created_at :
                    k \in { j \in SuspectInterrogations(s) :
                              cases[j[1]].status \notin
                                  { CLOSED_VERDICT, CLOSED_REJECTED, VOIDED } } }
    IN  IF days = {} THEN 0 ELSE SetMax(days)

ClaimedScore(s) == ClaimedMaxDaysOpen(s) * ClaimedMaxCrimeLevel(s)

\* C17 (as claimed): the ranking score of every suspect is maxDaysOpen x
\* maxCrimeLevel with a floor of one day for each active case, so that one
\* active case of level L created the same day gives L.
C17_RankingFormula ==
    \A s \in DOMAIN suspects : ranking_score(s) = ClaimedScore(s)

\* The requests that create or update an Interrogation
InterrogationWrites ==
    { "create_interrogation", "submit_score", "sergeant_verdict",
      "captain_verdict", "chief_verdict" }

\* The request last' records created or updated an interrogation of suspect
\* s, which triggers the recomputation of the suspect's ranking
Recomputed(s) ==
    /\ last'.op \in InterrogationWrites
    /\ last'.result \in { "OK", "Created" }
    /\ last'.id[2] = s

\* C18 (as claimed): when the ranking of a suspect under surveillance is
\* recomputed with maxDaysOpen above 30 the suspect becomes MOST_WANTED, with
\* maxDaysOpen of 30 or less the suspect stays UNDER_SURVEILLANCE.
C18_MostWanted ==
    [][ \A s \in DOMAIN suspects :
          ( Recomputed(s) /\ suspects[s].status = "UNDER_SURVEILLANCE" )
          => suspects'[s].status =
                 IF ClaimedMaxDaysOpen(s)' > MostWantedDays
                 THEN "MOST_WANTED" ELSE "UNDER_SURVEILLANCE" ]_vars

\* Every case linked to the suspect is closed or voided
AllCasesClosed(s) ==
    /\ SuspectInterrogations(s) # {}
    /\ \A k \in SuspectInterrogations(s) :
          cases[k[1]].status \in { CLOSED_VERDICT, CLOSED_REJECTED, VOIDED }

C20_CacheFresh ==
    [][ \A s \in DOMAIN suspects :
          Recomputed(s)
          => /\ "cached_ranking_score" \in DOMAIN suspects'[s]
             /\ suspects'[s].cached_ranking_score = ClaimedScore(s)' ]_vars

\* C21 (as claimed): the reward is the score times 20,000,000, and a tip the
\* detective has just approved stores that product for its suspect (0 when
\* the tip names no suspect).
C21_RewardAmount ==
    [][ \A t \in DOMAIN tips :
          ( /\ last'.op = "review_tip"
            /\ last'.id[1] = t
            /\ tips[t].status # "APPROVED"
            /\ tips'[t].status = "APPROVED" )
          => tips'[t].amount =
                 IF tips[t].suspect = NoSuspect THEN 0
                 ELSE ranking_score(tips[t].suspect) * RewardMultiplier ]_vars

\* The verdict and the sentence of a CourtVerdict row agree
Coherent(row) ==
    /\ row.verdict = "INNOCENT" =>
          /\ row.sentence_type = "NONE"
          /\ row.prison_months = 0
          /\ row.fine_amount = 0
    /\ row.verdict = "GUILTY" => row.sentence_type # "NONE"

\* The verdict and the sentence a request stands for once the defaults
\* (INNOCENT, NONE) have filled in what it leaves out
Defaulted(verdict, sentence_type) ==
    << IF verdict = "ABSENT" THEN "INNOCENT" ELSE verdict,
       IF sentence_type = "ABSENT" THEN "NONE" ELSE sentence_type >>

\* C22 (as claimed): every persisted CourtVerdict is coherent, also when the
\* payload left verdict or sentence_type to the defaults, and a judge's
\* request whose verdict and sentence disagree fails with ValidationError
\* and changes neither the suspect nor the case.
C22_VerdictCoherence ==
    /\ [](\A k \in DOMAIN verdicts : Coherent(verdicts[k]))
    /\ [][ ( /\ last'.op = "issue_verdict"
             /\ IsJudge(last'.actor)
             /\ last'.id \in DOMAIN interrogations
             /\ last'.id \notin DOMAIN verdicts
             /\ LET d == Defaulted(last'.action, last'.extra)
                IN  \/ d[1] = "INNOCENT" /\ d[2] # "NONE"
                    \/ d[1] = "GUILTY" /\ d[2] = "NONE" )
           => /\ last'.result = "ValidationError"
              /\ UNCHANGED << suspects, cases, verdicts >> ]_vars

\* C23: a verdict that is accepted sets the status of the interrogation's
\* suspect to CONVICTED when it is GUILTY and to ACQUITTED when it is
\* INNOCENT, whatever the status was before.
C23_SuspectStatus ==
    [][ ( /\ last'.op = "issue_verdict"
          /\ last'.result = "Created" )
        => LET k == last'.id
           IN  /\ k \in DOMAIN verdicts'
               /\ last'.action = "GUILTY" =>
                     /\ verdicts'[k].verdict = "GUILTY"
                     /\ suspects'[k[2]].status = "CONVICTED"
               /\ last'.action = "INNOCENT" =>
                     /\ verdicts'[k].verdict = "INNOCENT"
                     /\ suspects'[k[2]].status = "ACQUITTED" ]_vars

\* A suspect acquitted by an earlier verdict has just been found guilty
C23_Witness ==
    /\ last.op = "issue_verdict"
    /\ last.result = "Created"
    /\ last.action = "GUILTY"
    /\ suspects[last.id[2]].status = "CONVICTED"
    /\ last.msg = << "ACQUITTED" >>

\* C24 (as claimed): a verdict that is accepted for an interrogation whose
\* case is not terminal sets the case's status to CLOSED_VERDICT and adds
\* exactly one entry to the case's audit log; a terminal case keeps its
\* status.
C24_CaseClosed ==
    [][ ( /\ last'.op = "issue_verdict"
          /\ last'.result = "Created" )
        => LET c == last'.id[1]
           IN  IF cases[c].status \in TerminalStatuses
               THEN cases'[c].status = cases[c].status
               ELSE /\ cases'[c].status = CLOSED_VERDICT
                    /\ Len(CaseLog(logs', c)) = Len(CaseLog(logs, c)) + 1 ]_vars

\* C25: an interrogation has at most one CourtVerdict: a judge's request for
\* an interrogation that already has one fails with AlreadyDecided and
\* leaves the verdicts, the suspects and the cases as they are, and a
\* verdict that stays in the table is never changed.
C25_OneVerdict ==
    /\ [][ ( /\ last'.op = "issue_verdict"
             /\ IsJudge(last'.actor)
             /\ last'.id \in DOMAIN verdicts )
           => /\ last'.result = "AlreadyDecided"
              /\ UNCHANGED << verdicts, suspects, cases >> ]_vars
    /\ [][ \A k \in DOMAIN verdicts \cap DOMAIN verdicts' :
             verdicts'[k] = verdicts[k] ]_vars

\* A coherent INNOCENT verdict has just been refused for an interrogation
\* that was decided GUILTY; the suspect is still convicted
C25_Witness ==
    /\ last.op = "issue_verdict"
    /\ last.result = "AlreadyDecided"
    /\ last.action = "INNOCENT"
    /\ last.extra = "NONE"
    /\ last.id \in DOMAIN verdicts
    /\ verdicts[last.id].verdict = "GUILTY"
    /\ suspects[last.id[2]].status = "CONVICTED"

\* The role each gated operation requires
RequiredRoles(op) ==
    CASE op = "cadet_review" -> { "CADET" }
      [] op = "officer_review" -> { "OFFICER" }
      [] op = "submit_score" -> { "DETECTIVE", "SERGEANT" }
      [] op = "sergeant_verdict" -> { "SERGEANT" }
      [] op = "captain_verdict" -> { "CAPTAIN" }
      [] op = "chief_verdict" -> { "CHIEF" }
      [] op = "issue_verdict" -> { "JUDGE" }

GatedOps ==
    { "cadet_review", "officer_review", "submit_score", "sergeant_verdict",
      "captain_verdict", "chief_verdict", "issue_verdict" }

\* The requests on an existing case that no citizen may make
PoliceOnlyOps == { "update_case", "destroy_case" }

\* C26 (as claimed): a request for a gated operation by an actor whose role
\* is not the required one is refused, a citizen's request to update or to
\* delete a case is refused, and a refused request changes no table.
C26_RoleGating ==
    [][ ( \/ /\ last'.op \in GatedOps
             /\ last'.actor \notin RequiredRoles(last'.op)
          \/ /\ last'.op \in PoliceOnlyOps
             /\ last'.actor = "CITIZEN" )
        => /\ last'.result = "Forbidden"
           /\ UNCHANGED << cases, logs, suspects, interrogations,
                           verdicts >> ]_vars

\* C27 (as claimed): no request changes the crime_level of an existing case.
C27_CrimeLevelImmutable ==
    [][ \A c \in DOMAIN cases \cap DOMAIN cases' :
          cases'[c].crime_level = cases[c].crime_level ]_vars

\* C28 (as claimed): a case leaves PENDING_SUPERIOR_APPROVAL only by a
\* superior's decision, to OPEN on approval or to VOIDED on rejection.
C28_SuperiorApproval ==
    [][ \A c \in DOMAIN cases \cap DOMAIN cases' :
          ( /\ cases[c].status = PENDING_SUPERIOR_APPROVAL
            /\ cases'[c].status # PENDING_SUPERIOR_APPROVAL )
          => /\ cases'[c].status \in { OPEN, VOIDED }
             /\ IsSuperior(last'.actor) ]_vars

\* C29 (as claimed): after an officer rejection the cadet can review the
\* case again: a cadet's well-formed review of a case in RETURNED_TO_CADET
\* is accepted.
C29_ReturnedToCadet ==
    [][ ( /\ last'.op = "cadet_review"
          /\ IsCadet(last'.actor)
          /\ WellFormedReview(last')
          /\ last'.id[1] \in DOMAIN cases
          /\ cases[last'.id[1]].status = RETURNED_TO_CADET )
        => /\ last'.result = "OK"
           /\ cases'[last'.id[1]].status
                  \in { PENDING_OFFICER_REVIEW, RETURNED_TO_COMPLAINANT,
                        VOIDED } ]_vars

\* C30 (as claimed): a captain approval of an interrogation waiting for the
\* captain, whose case has a crime_level of at most 4, sets the status of
\* the interrogation and of the case to IN_COURT.
C30_CaptainApprovalInCourt ==
    [][ \A k \in DOMAIN interrogations :
          ( /\ Carried("captain_verdict", k)
            /\ last'.action = "TRUE"
            /\ cases[k[1]].crime_level <= CRITICAL
            /\ "status" \in DOMAIN interrogations[k]
                  => interrogations[k].status = WAITING_FOR_CAPTAIN )
          => /\ cases'[k[1]].status = IN_COURT
             /\ InterrogationStatusIs(interrogations'[k], IN_COURT) ]_vars

\* The edges of the documented state graph of a case
DocumentedEdges ==
    { << PENDING_CADET_REVIEW, PENDING_OFFICER_REVIEW >>,
      << PENDING_CADET_REVIEW, RETURNED_TO_COMPLAINANT >>,
      << PENDING_CADET_REVIEW, VOIDED >>,
      << PENDING_OFFICER_REVIEW, OPEN >>,
      << PENDING_OFFICER_REVIEW, RETURNED_TO_CADET >>,
      << RETURNED_TO_CADET, PENDING_CADET_REVIEW >>,
      << PENDING_SUPERIOR_APPROVAL, OPEN >>,
      << PENDING_SUPERIOR_APPROVAL, VOIDED >>,
      << OPEN, INVESTIGATION >>,
      << INVESTIGATION, WAITING_FOR_SERGEANT >>,
      << WAITING_FOR_SERGEANT, CLOSED_REJECTED >>,
      << WAITING_FOR_SERGEANT, INTERROGATION >>,
      << INTERROGATION, WAITING_FOR_CAPTAIN >>,
      << WAITING_FOR_CAPTAIN, CLOSED_REJECTED >>,
      << WAITING_FOR_CAPTAIN, WAITING_FOR_CHIEF >>,
      << WAITING_FOR_CAPTAIN, IN_COURT >>,
      << WAITING_FOR_CHIEF, CLOSED_REJECTED >>,
      << WAITING_FOR_CHIEF, IN_COURT >>,
      << IN_COURT, CLOSED_VERDICT >> }

\* C31 (as claimed): every change of a case's status is an edge of the
\* documented state graph.
C31_DocumentedEdges ==
    [][ \A c \in DOMAIN cases \cap DOMAIN cases' :
          cases'[c].status # cases[c].status
          => << cases[c].status, cases'[c].status >> \in DocumentedEdges ]_vars

\* C32 (as claimed): a critical case becomes IN_COURT only by a chief
\* approval of an interrogation the captain has approved, while the case is
\* WAITING_FOR_CHIEF; a chief verdict that is carried out finds the case in
\* WAITING_FOR_CHIEF; a non-critical case becomes IN_COURT only by a captain
\* approval.
C32_EscalationOrder ==
    [][ \A k \in DOMAIN interrogations :
          /\ ( /\ k[1] \in DOMAIN cases'
               /\ last'.id = k
               /\ cases[k[1]].status # IN_COURT
               /\ cases'[k[1]].status = IN_COURT )
             => IF cases[k[1]].crime_level = CRITICAL
                THEN /\ last'.op = "chief_verdict"
                     /\ last'.action = "TRUE"
                     /\ interrogations[k].captain_verdict = "TRUE"
                     /\ cases[k[1]].status = WAITING_FOR_CHIEF
                ELSE /\ last'.op = "captain_verdict"
                     /\ last'.action = "TRUE"
          /\ Carried("chief_verdict", k)
             => cases[k[1]].status = WAITING_FOR_CHIEF ]_vars

\* C33 (as claimed): an interrogation whose case is not critical has
\* chief_verdict unset.
C33_ChiefVerdictOnlyCritical ==
    \A k \in DOMAIN interrogations :
       cases[k[1]].crime_level # CRITICAL
       => interrogations[k].chief_verdict = "NULL"

C35_LogChain ==
    \A c \in DOMAIN cases :
       LET log == CaseLog(logs, c)
       IN  /\ \A i \in 2 .. Len(log) :
                log[i].from_status = log[i - 1].to_status
           /\ Len(log) > 0 => log[Len(log)].to_status = cases[c].status

\* C36: the status of a suspect is the outcome of the verdict saved last:
\* a verdict that is accepted makes the suspect CONVICTED when it is GUILTY
\* and ACQUITTED otherwise, whatever the verdicts on the suspect's other
\* interrogations say, and no other request changes the suspect's status.
C36_LastVerdictWins ==
    /\ [][ ( /\ last'.op = "issue_verdict"
             /\ last'.result = "Created" )
           => suspects'[last'.id[2]].status =
                  IF verdicts'[last'.id].verdict = "GUILTY"
                  THEN "CONVICTED" ELSE "ACQUITTED" ]_vars
    /\ [][ \A s \in DOMAIN suspects :
             suspects'[s].status # suspects[s].status
             => /\ last'.op = "issue_verdict"
                /\ last'.result = "Created"
                /\ last'.id[2] = s ]_vars

\* The suspect found guilty in one case has just been found innocent in
\* another and is acquitted, the guilty verdict still standing
C36_Witness ==
    /\ last.op = "issue_verdict"
    /\ last.result = "Created"
    /\ last.action = "INNOCENT"
    /\ suspects[last.id[2]].status = "ACQUITTED"
    /\ \E k \in DOMAIN verdicts :
          /\ k # last.id
          /\ k[2] = last.id[2]
          /\ verdicts[k].verdict = "GUILTY"

\* C37 (as claimed): a tip starts PENDING; an officer moves a PENDING tip to
\* FORWARDED or REJECTED, a detective moves a FORWARDED tip to APPROVED or
\* REJECTED, and the status of a tip changes in no other way, so that a tip
\* is approved only after it was forwarded and a REJECTED tip stays
\* rejected.
C37_TipReviewOrder ==
    [][ \A t \in DOMAIN tips' :
             IF t \in DOMAIN tips
             THEN tips'[t].status # tips[t].status
                  => \/ /\ tips[t].status = "PENDING"
                        /\ tips'[t].status \in { "FORWARDED", "REJECTED" }
                        /\ last'.actor = "OFFICER"
                     \/ /\ tips[t].status = "FORWARDED"
                        /\ tips'[t].status \in { "APPROVED", "REJECTED" }
                        /\ last'.actor = "DETECTIVE"
             ELSE tips'[t].status = "PENDING" ]_vars

\* C38 (as claimed): the step in which a detective first approves a tip
\* gives it a tracking id and the amount score x 20,000,000 of its suspect
\* (0 without a suspect), and a tracking id that has been assigned is never
\* changed.
C38_TrackingId ==
    [][ \A t \in DOMAIN tips :
          /\ ( /\ last'.op = "review_tip"
               /\ last'.id[1] = t
               /\ tips[t].unique_tracking_id = NoTrackingId
               /\ tips'[t].status = "APPROVED" )
             => /\ last'.actor = "DETECTIVE"
                /\ tips'[t].unique_tracking_id # NoTrackingId
                /\ tips'[t].amount =
                       IF tips[t].suspect = NoSuspect THEN 0
                       ELSE ranking_score(tips[t].suspect) * RewardMultiplier
          /\ tips[t].unique_tracking_id # NoTrackingId
             => tips'[t].unique_tracking_id = tips[t].unique_tracking_id ]_vars

\* C39 (as claimed): a tip that a citizen has just submitted is PENDING and
\* its amount is score x 20,000,000 of the suspect it names, whatever status
\* and amount the request carried.
C39_TipSubmission ==
    [][ ( /\ last'.op = "submit_tip"
          /\ last'.result = "Created" )
        => LET tip == tips'[last'.id[1]]
           IN  /\ tip.status = "PENDING"
               /\ tip.amount =
                      IF tip.suspect = NoSuspect THEN 0
                      ELSE ranking_score(tip.suspect) * RewardMultiplier ]_vars

\* A payment callback of worker w arrives in this step
Arrives(w) ==
    /\ callbacks[w].pc \in { "idle", "done" }
    /\ callbacks'[w] # callbacks[w]

====
